---------------------------- MODULE Spec2Model ----------------------------
(***************************************************************************)
(* Conversation-memory store: the storage contract IMemoryStorage and its  *)
(* backends.  LocalStorage (one JSON file) and S3Storage (one JSON object) *)
(* run the same code over an in-memory `data` structure mirrored to one    *)
(* durable blob; DynamoDBStorage keeps one row per message and per session *)
(* in a table keyed by (PK, SK).  MemoryManager sits on top of one backend *)
(* and keeps the current-session pointer.                                  *)
(*                                                                         *)
(* Strings built by template literals (`MESSAGE#${id}`) are modelled as    *)
(* pairs <<prefix, id>>; Date values as integers (getTime()); `undefined`  *)
(* as the markers Undefined (strings), NoNum (numbers, dates) and NoMeta.  *)
(***************************************************************************)
EXTENDS Integers, Sequences, FiniteSets, TLC

VARIABLES
    kind,       \* config.type of the backend under test: "local" | "s3" | "dynamodb"
    ready,      \* this.ready
    data,       \* this.data of LocalStorage / S3Storage: [messages, sessions, lastUpdated]
    durable,    \* content of the file (dataPath) / object (dataKey); NoFile when absent
    table,      \* items of the DynamoDB table
    now,        \* the wall clock read by new Date()
    nextUuid,   \* number of identifiers uuidv4() has handed out
    last,       \* the last completed call: its name, arguments, outcome
    managerReady,       \* MemoryManager.ready
    currentSessionId,   \* MemoryManager.currentSessionId
    pending,    \* promise chains startSession left running: getSession(id).then(...)
    writes,     \* calls on the backend that were started and not awaited yet
    peer,       \* a second LocalStorage / S3Storage instance on the same blob
    faults      \* number of writes of the blob that failed so far

vars == <<kind, ready, data, durable, table, now, nextUuid, last,
          managerReady, currentSessionId, pending, writes, peer, faults>>

\* the fields of MemoryManager
managerVars == <<managerReady, currentSessionId, pending>>

\* what only concurrent callers, a second instance and a failing
\* environment touch
envVars == <<writes, peer, faults>>

---------------------------------------------------------------------------
(* Bounds and input domains *)

MaxUuid == 1        \* uuidv4() hands out at most this many identifiers
MaxClock == 1       \* the clock runs over 0..MaxClock
MaxStored == 3      \* messages in the store a query specification starts from

Undefined == "undefined"
NoNum == -1
NoMeta == [undefined |-> TRUE]
Null == [null |-> TRUE]
NoFile == [nofile |-> TRUE]
NoSession == "null"
NoPeer == [ready |-> FALSE]
NoError == "ok"
NotInitialized == "Storage not initialized"

MessageIds == {"m1"}
SessionIds == {"s1", "s2"}
Roles == {"user", "assistant"}
Contents == {"hi", "yo"}
Timestamps == {1, 2}
Metadatas == {NoMeta, [k |-> "v"]}
Titles == {"t"}
UuidPool == <<"u1", "u2", "u3", "u4", "u5">>

Min(a, b) == IF a < b THEN a ELSE b
Max(a, b) == IF a > b THEN a ELSE b

\* JavaScript truthiness of an optional string and of an optional number
TruthyStr(s) == s # Undefined /\ s # ""
TruthyNum(n) == n # NoNum /\ n # 0

\* ConversationMessage values a caller may pass (id Undefined: not provided)
Messages ==
    [id : MessageIds \cup {Undefined}, sessionId : SessionIds, role : Roles,
     content : Contents, timestamp : Timestamps, metadata : Metadatas]

---------------------------------------------------------------------------
(* Array helpers *)

\* Array.prototype.findIndex, 1-based; 0 when no element satisfies Test
FindIndex(arr, Test(_)) ==
    IF \E i \in 1..Len(arr) : Test(arr[i])
    THEN CHOOSE i \in 1..Len(arr) : Test(arr[i]) /\ \A j \in 1..(i-1) : ~Test(arr[j])
    ELSE 0

\* Array.prototype.filter
Filter(arr, Test(_)) == SelectSeq(arr, Test)

\* Array.prototype.splice(index, 1)
Splice(arr, i) == SubSeq(arr, 1, i - 1) \o SubSeq(arr, i + 1, Len(arr))

\* Array.prototype.slice(start, end) for 0-based start, end >= 0
Slice(arr, start, end) == SubSeq(arr, start + 1, Min(end, Len(arr)))

\* { ...base, ...updates }
Spread(base, updates) ==
    [k \in DOMAIN base \cup DOMAIN updates |->
        IF k \in DOMAIN updates THEN updates[k] ELSE base[k]]

\* messages.filter(m => m.sessionId === sessionId).length
CountFor(messages, sessionId) ==
    Len(Filter(messages, LAMBDA m : m.sessionId = sessionId))

---------------------------------------------------------------------------
(* LocalStorage / S3Storage: the in-memory structure and its durable mirror *)

EmptyData(t) == [messages |-> <<>>, sessions |-> <<>>, lastUpdated |-> t]

\* Date.prototype.toJSON and its inverse new Date(isoString)
ToISOString(t) == [iso |-> t]
NewDate(v) == v.iso

\* JSON.stringify of an object: keys holding undefined are dropped, Dates
\* become ISO strings
JsonMessage(m) ==
    [k \in {x \in DOMAIN m : x # "metadata" \/ m[x] # NoMeta} |->
        IF k = "timestamp" THEN ToISOString(m[k]) ELSE m[k]]

JsonSession(s) ==
    [k \in {x \in DOMAIN s : x # "title" \/ s[x] # Undefined} |->
        IF k \in {"createdAt", "updatedAt"} THEN ToISOString(s[k]) ELSE s[k]]

Stringify(d) ==
    [messages |-> [i \in 1..Len(d.messages) |-> JsonMessage(d.messages[i])],
     sessions |-> [i \in 1..Len(d.sessions) |-> JsonSession(d.sessions[i])],
     lastUpdated |-> ToISOString(d.lastUpdated)]

\* JSON.parse followed by the conversion of the date strings back to Dates
Revive(content) ==
    [messages |-> [i \in 1..Len(content.messages) |->
        [content.messages[i] EXCEPT !.timestamp = NewDate(@)]],
     sessions |-> [i \in 1..Len(content.sessions) |->
        [content.sessions[i] EXCEPT !.createdAt = NewDate(@), !.updatedAt = NewDate(@)]],
     lastUpdated |-> NewDate(content.lastUpdated)]

\* property reads of a stored message / session (undefined when the key is absent)
MetadataOf(m) == IF "metadata" \in DOMAIN m THEN m.metadata ELSE NoMeta
TitleOf(s) == IF "title" \in DOMAIN s THEN s.title ELSE Undefined

\* updateSessionInternal that stores the updates in place of the record
UpdateSessionInternalReplace(sessions, sessionId, updates, t) ==
    LET sessionIndex == FindIndex(sessions, LAMBDA s : s.id = sessionId)
        fresh == Spread([id |-> sessionId, createdAt |-> t, updatedAt |-> t,
                         messageCount |-> 1], updates)
    IN  IF sessionIndex >= 1
        THEN [sessions EXCEPT ![sessionIndex] = fresh]
        ELSE Append(sessions, fresh)

\* updateSessionInternal(sessionId, updates) at time t
UpdateSessionInternal(sessions, sessionId, updates, t) ==
    LET sessionIndex == FindIndex(sessions, LAMBDA s : s.id = sessionId)
    IN  IF sessionIndex >= 1
        THEN [sessions EXCEPT ![sessionIndex] =
                Spread(Spread(@, updates), [updatedAt |-> t])]
        ELSE Append(sessions,
                Spread([id |-> sessionId, createdAt |-> t, updatedAt |-> t,
                        messageCount |-> 1], updates))

\* saveMessage that pushes without looking for the id
UpsertAlwaysPush(messages, message) == Append(messages, message)

\* the "update or add message" step of saveMessage
UpsertMessage(messages, message) ==
    LET existingIndex == FindIndex(messages, LAMBDA m : m.id = message.id)
    IN  IF existingIndex >= 1
        THEN [messages EXCEPT ![existingIndex] = message]
        ELSE Append(messages, message)

\* the session update of saveMessage: the count of the saved message's session
SaveSessionUpdate(messages, message, t) ==
    [updatedAt |-> t, messageCount |-> CountFor(messages, message.sessionId)]

\* saveMessage on the in-memory structure (message.id already assigned)
SaveMessageData(d, message, t) ==
    LET msgs == UpsertMessage(d.messages, message)
    IN  [messages |-> msgs,
         sessions |-> UpdateSessionInternal(d.sessions, message.sessionId,
                          SaveSessionUpdate(msgs, message, t), t),
         lastUpdated |-> t]

\* deleteMessage that leaves the session's count as it was
DeleteMessageStaleCount(d, messageId, t) ==
    [messages |-> Splice(d.messages,
                         FindIndex(d.messages, LAMBDA m : m.id = messageId)),
     sessions |-> d.sessions,
     lastUpdated |-> t]

\* deleteMessage on the in-memory structure, for a stored messageId
DeleteMessageData(d, messageId, t) ==
    LET messageIndex == FindIndex(d.messages, LAMBDA m : m.id = messageId)
        message == d.messages[messageIndex]
        msgs == Splice(d.messages, messageIndex)
    IN  [messages |-> msgs,
         sessions |-> UpdateSessionInternal(d.sessions, message.sessionId,
                          [messageCount |-> CountFor(msgs, message.sessionId)], t),
         lastUpdated |-> t]

\* deleteSession that removes the record and keeps the messages
DeleteSessionNoCascade(d, sessionId, t) ==
    [messages |-> d.messages,
     sessions |-> Filter(d.sessions, LAMBDA s : s.id # sessionId),
     lastUpdated |-> t]

\* deleteSession on the in-memory structure
DeleteSessionData(d, sessionId, t) ==
    [messages |-> Filter(d.messages, LAMBDA m : m.sessionId # sessionId),
     sessions |-> Filter(d.sessions, LAMBDA s : s.id # sessionId),
     lastUpdated |-> t]

\* a getMessage that falls back on the first message of the array
FindMessageOrFirst(messages, messageId) ==
    LET i == FindIndex(messages, LAMBDA m : m.id = messageId)
    IN  IF i >= 1 THEN messages[i]
        ELSE IF messages # <<>> THEN messages[1] ELSE Null

\* getMessage / getSession: find(...) || null
FindMessage(messages, messageId) ==
    LET i == FindIndex(messages, LAMBDA m : m.id = messageId)
    IN  IF i >= 1 THEN messages[i] ELSE Null

FindSession(sessions, sessionId) ==
    LET i == FindIndex(sessions, LAMBDA s : s.id = sessionId)
    IN  IF i >= 1 THEN sessions[i] ELSE Null

---------------------------------------------------------------------------
(* getMessages: filter, sort, paginate (the same code in the three backends) *)

\* Array.prototype.sort((a, b) => a.timestamp.getTime() - b.timestamp.getTime()):
\* a stable sort, ascending by timestamp
RECURSIVE InsertByTimestamp(_, _)
InsertByTimestamp(sorted, m) ==
    IF sorted = <<>> \/ sorted[Len(sorted)].timestamp <= m.timestamp
    THEN Append(sorted, m)
    ELSE Append(InsertByTimestamp(SubSeq(sorted, 1, Len(sorted) - 1), m),
                sorted[Len(sorted)])

\* a sort with the comparator reversed (b - a): descending by timestamp
RECURSIVE SortDescending(_)
SortDescending(arr) ==
    IF arr = <<>> THEN <<>>
    ELSE LET i == CHOOSE i \in 1..Len(arr) :
                      \A j \in 1..Len(arr) : arr[j].timestamp <= arr[i].timestamp
         IN  <<arr[i]>> \o SortDescending(Splice(arr, i))

RECURSIVE SortByTimestamp(_)
SortByTimestamp(arr) ==
    IF arr = <<>> THEN <<>>
    ELSE InsertByTimestamp(SortByTimestamp(SubSeq(arr, 1, Len(arr) - 1)), arr[Len(arr)])

\* the role / startDate / endDate filters
FilterRole(arr, options) ==
    IF TruthyStr(options.role)
    THEN Filter(arr, LAMBDA m : m.role = options.role) ELSE arr

FilterStart(arr, options) ==
    IF options.startDate # NoNum
    THEN Filter(arr, LAMBDA m : m.timestamp >= options.startDate) ELSE arr

\* an endDate filter with an exclusive bound
FilterEndExclusive(arr, options) ==
    IF options.endDate # NoNum
    THEN Filter(arr, LAMBDA m : m.timestamp < options.endDate) ELSE arr

FilterEnd(arr, options) ==
    IF options.endDate # NoNum
    THEN Filter(arr, LAMBDA m : m.timestamp <= options.endDate) ELSE arr

\* a sessionId filter that is never applied
FilterSessionSkipped(arr, options) == arr

\* the sessionId filter of LocalStorage / S3Storage
FilterSession(arr, options) ==
    IF TruthyStr(options.sessionId)
    THEN Filter(arr, LAMBDA m : m.sessionId = options.sessionId) ELSE arr

\* const limit = options.limit || total
EffectiveLimit(options, total) ==
    IF TruthyNum(options.limit) THEN options.limit ELSE total

\* const offset = options.offset || 0
EffectiveOffset(options) ==
    IF TruthyNum(options.offset) THEN options.offset ELSE 0

\* hasMore: offset + limit < total
HasMore(offset, limit, total) == offset + limit < total

\* sort and paginate the filtered messages into a MemorySearchResult
Paginate(filtered, options) ==
    LET sorted == SortByTimestamp(filtered)
        total == Len(sorted)
        offset == EffectiveOffset(options)
        limit == EffectiveLimit(options, total)
    IN  [messages |-> Slice(sorted, offset, offset + limit),
         total |-> total,
         hasMore |-> HasMore(offset, limit, total)]

\* LocalStorage.getMessages / S3Storage.getMessages
GetMessagesData(messages, options) ==
    Paginate(FilterEnd(FilterStart(FilterRole(FilterSession(messages, options),
                                              options), options), options), options)

---------------------------------------------------------------------------
(* DynamoDBStorage: the table and the document-client commands.  An item   *)
(* is a record with its key attributes PK and SK; an attribute given as    *)
(* undefined is not stored.  Query is evaluated as its key condition reads. *)

MessagePK(messageId) == <<"MESSAGE", messageId>>
SessionKey(sessionId) == <<"SESSION", sessionId>>

\* JSON.stringify(metadata) / JSON.parse(item.metadata)
JsonStringify(metadata) == [json |-> metadata]
JsonParse(text) == text.json

\* GetCommand: the item stored under (pk, sk), or no Item
DynamoGet(tbl, pk, sk) ==
    IF \E i \in tbl : i.PK = pk /\ i.SK = sk
    THEN CHOOSE i \in tbl : i.PK = pk /\ i.SK = sk
    ELSE Null

\* PutCommand: replaces the item with the same key
DynamoPut(tbl, item) ==
    {i \in tbl : ~(i.PK = item.PK /\ i.SK = item.SK)} \cup {item}

\* DeleteCommand: a no-op when no item has the key
DynamoDelete(tbl, pk, sk) == {i \in tbl : ~(i.PK = pk /\ i.SK = sk)}

\* response.Items as an array, in the order the service returns them
RECURSIVE ItemsOf(_)
ItemsOf(S) ==
    IF S = {} THEN <<>>
    ELSE LET x == CHOOSE x \in S : TRUE IN <<x>> \o ItemsOf(S \ {x})

\* QueryCommand 'SK = :sessionId AND begins_with(PK, :messagePrefix)'
DynamoQuerySession(tbl, sessionId) ==
    ItemsOf({i \in tbl : i.SK = SessionKey(sessionId) /\ i.PK[1] = "MESSAGE"})

\* ScanCommand with FilterExpression 'begins_with(PK, :prefix)'
DynamoScanPrefix(tbl, prefix) == ItemsOf({i \in tbl : i.PK[1] = prefix})

\* the Item of saveMessage's PutCommand
MessageItem(message, t) ==
    LET base == [PK |-> MessagePK(message.id), SK |-> SessionKey(message.sessionId),
                 type |-> "message", id |-> message.id, sessionId |-> message.sessionId,
                 role |-> message.role, content |-> message.content,
                 timestamp |-> ToISOString(message.timestamp),
                 createdAt |-> ToISOString(t)]
    IN  IF message.metadata # NoMeta
        THEN Spread(base, [metadata |-> JsonStringify(message.metadata)])
        ELSE base

\* the mapping of an item to a ConversationMessage (getMessages, getMessage)
MessageOfItem(item) ==
    [id |-> item.id, sessionId |-> item.sessionId, role |-> item.role,
     content |-> item.content, timestamp |-> NewDate(item.timestamp),
     metadata |-> IF "metadata" \in DOMAIN item THEN JsonParse(item.metadata) ELSE NoMeta]

\* the mapping of an item to a ConversationSession (getSession, getSessions)
SessionOfItem(item) ==
    [id |-> item.id, title |-> TitleOf(item),
     createdAt |-> NewDate(item.createdAt), updatedAt |-> NewDate(item.updatedAt),
     messageCount |-> IF "messageCount" \in DOMAIN item THEN item.messageCount ELSE 0,
     metadata |-> IF "metadata" \in DOMAIN item THEN JsonParse(item.metadata) ELSE NoMeta]

\* the Item of updateSession's PutCommand
SessionItem(sessionId, session) ==
    LET base == [PK |-> SessionKey(sessionId), SK |-> SessionKey(sessionId),
                 type |-> "session", id |-> sessionId,
                 createdAt |-> ToISOString(session.createdAt),
                 updatedAt |-> ToISOString(session.updatedAt),
                 messageCount |-> session.messageCount]
        titled == IF TitleOf(session) # Undefined
                  THEN Spread(base, [title |-> session.title]) ELSE base
    IN  IF MetadataOf(session) # NoMeta
        THEN Spread(titled, [metadata |-> JsonStringify(session.metadata)])
        ELSE titled

\* DynamoDBStorage.getMessages
DynamoGetMessages(tbl, options) ==
    LET items == IF TruthyStr(options.sessionId)
                 THEN DynamoQuerySession(tbl, options.sessionId)
                 ELSE DynamoScanPrefix(tbl, "MESSAGE")
        messages == [i \in 1..Len(items) |-> MessageOfItem(items[i])]
    IN  Paginate(FilterEnd(FilterStart(FilterRole(messages, options), options),
                           options), options)

\* the key DynamoDBStorage.getMessage looks up
GetMessageKey(messageId) == [PK |-> MessagePK(messageId), SK |-> MessagePK(messageId)]

\* DynamoDBStorage.getMessage
DynamoGetMessage(tbl, messageId) ==
    LET item == DynamoGet(tbl, GetMessageKey(messageId).PK, GetMessageKey(messageId).SK)
    IN  IF item = Null THEN Null ELSE MessageOfItem(item)

\* DynamoDBStorage.getSession
DynamoGetSession(tbl, sessionId) ==
    LET item == DynamoGet(tbl, SessionKey(sessionId), SessionKey(sessionId))
    IN  IF item = Null THEN Null ELSE SessionOfItem(item)

SessionNotFound == "Session not found"

\* updateSession that creates the record it does not find
DynamoUpdateSessionUpsert(tbl, sessionId, updates, t) ==
    LET found == DynamoGetSession(tbl, sessionId)
        session == IF found = Null
                   THEN [id |-> sessionId, title |-> Undefined, createdAt |-> t,
                         updatedAt |-> t, messageCount |-> 0, metadata |-> NoMeta]
                   ELSE found
    IN  [table |-> DynamoPut(tbl, SessionItem(sessionId,
                        Spread(Spread(session, updates), [updatedAt |-> t]))),
         err |-> NoError]

\* DynamoDBStorage.updateSession: [table, err]
DynamoUpdateSession(tbl, sessionId, updates, t) ==
    LET session == DynamoGetSession(tbl, sessionId)
    IN  IF session = Null
        THEN [table |-> tbl, err |-> SessionNotFound]
        ELSE [table |-> DynamoPut(tbl, SessionItem(sessionId,
                            Spread(Spread(session, updates), [updatedAt |-> t]))),
              err |-> NoError]

\* the options of a query by session alone
BySession(sessionId) ==
    [sessionId |-> sessionId, role |-> Undefined, startDate |-> NoNum,
     endDate |-> NoNum, limit |-> NoNum, offset |-> NoNum]

\* DynamoDBStorage.updateSessionInternal: [table, err]
DynamoUpdateSessionInternal(tbl, sessionId, t) ==
    DynamoUpdateSession(tbl, sessionId,
        [messageCount |-> DynamoGetMessages(tbl, BySession(sessionId)).total,
         updatedAt |-> t], t)

\* DynamoDBStorage.saveMessage (message.id already assigned): [table, err]
DynamoSaveMessage(tbl, message, t) ==
    DynamoUpdateSessionInternal(DynamoPut(tbl, MessageItem(message, t)),
                                message.sessionId, t)

\* DynamoDBStorage.deleteMessage: [table, err]
DynamoDeleteMessage(tbl, messageId, t) ==
    LET message == DynamoGetMessage(tbl, messageId)
    IN  IF message = Null
        THEN [table |-> tbl, err |-> NoError]
        ELSE DynamoUpdateSessionInternal(
                 DynamoDelete(tbl, MessagePK(messageId), SessionKey(message.sessionId)),
                 message.sessionId, t)

\* the loop of deleteSession over the messages getMessages returned
RECURSIVE DynamoDeleteRows(_, _, _)
DynamoDeleteRows(tbl, messages, sessionId) ==
    IF messages = <<>> THEN tbl
    ELSE DynamoDeleteRows(
             DynamoDelete(tbl, MessagePK(Head(messages).id), SessionKey(sessionId)),
             Tail(messages), sessionId)

\* DynamoDBStorage.deleteSession
DynamoDeleteSession(tbl, sessionId) ==
    DynamoDelete(
        DynamoDeleteRows(tbl, DynamoGetMessages(tbl, BySession(sessionId)).messages,
                         sessionId),
        SessionKey(sessionId), SessionKey(sessionId))

\* a clear that deletes the message rows and keeps the session rows
DynamoClearMessages(tbl) == {i \in tbl : i.type = "session"}

\* DynamoDBStorage.clear: scan, then delete every item by its key
DynamoClear(tbl) == {i \in tbl : \A j \in tbl : ~(i.PK = j.PK /\ i.SK = j.SK)}

---------------------------------------------------------------------------
(* The storage handlers.  Each action is one awaited call on the backend;  *)
(* `last` records the call and its outcome.                                *)

IsBlob == kind \in {"local", "s3"}

\* the instants new Date() may return during the next call
Instants == {now}

\* time passes between two calls
Tick ==
    /\ now < MaxClock
    /\ now' = now + 1
    /\ UNCHANGED <<kind, ready, data, durable, table, nextUuid, last>>

StoredIds == MessageIds \cup {UuidPool[i] : i \in 1..Min(MaxUuid, Len(UuidPool))}

MessageRows(tbl) == {i \in tbl : i.type = "message"}

\* `if (!this.ready) throw new Error('Storage not initialized')`
NotReady(op) ==
    /\ ~ready
    /\ last' = [op |-> op, err |-> NotInitialized]
    /\ UNCHANGED <<kind, ready, data, durable, table, now, nextUuid>>

\* the error fs.writeFile / PutObjectCommand rejects with, rethrown as it is
WriteFailed == "write failed"

\* `Failed to initialize local storage: ${error}` and its S3 / DynamoDB forms
InitializeFailed == "Failed to initialize storage"

\* a saveToFile that never reaches the file
SaveToFileStale(d, ok) == durable

\* a saveToFile whose write lands although it reports a failure
SaveToFileAnyway(d, ok) == Stringify(d)

\* saveToFile / saveToS3 on the structure d: the blob afterwards.  `ok`
\* tells whether the write goes through; a write that fails leaves the blob
\* as it was
SaveToFile(d, ok) == IF ok THEN Stringify(d) ELSE durable

\* what the call that ends in saveToFile / saveToS3 reports
WriteOutcome(ok) == IF ok THEN NoError ELSE WriteFailed

\* initialize(): load the durable blob if it exists / probe the table.
\* `ok` tells whether the file system / the service answers; when it does
\* not, the catch block rethrows and `this.ready = true` is not reached
InitializeWith(ok) ==
    /\ ready' = (ready \/ ok)
    /\ data' = IF ok /\ IsBlob /\ durable # NoFile THEN Revive(durable) ELSE data
    /\ last' = [op |-> "initialize", err |-> IF ok THEN NoError ELSE InitializeFailed]
    /\ UNCHANGED <<kind, durable, table, now, nextUuid>>

Initialize == InitializeWith(TRUE)

\* `if (!message.id) message.id = uuidv4()`, uuid identifiers handed out so far
AssignId(message, uuid) ==
    IF TruthyStr(message.id) THEN message
    ELSE [message EXCEPT !.id = UuidPool[uuid + 1]]

UuidAfter(message, uuid) == IF TruthyStr(message.id) THEN uuid ELSE uuid + 1

\* saveMessage(message); `ok`: the write at its end goes through
SaveMessageWith(message, ok) ==
    \/ NotReady("saveMessage")
    \/ /\ ready
       /\ IsBlob \/ ok
       /\ UuidAfter(message, nextUuid) <= Min(MaxUuid, Len(UuidPool))
       /\ \E t \in Instants :
            LET m == AssignId(message, nextUuid)
                r == DynamoSaveMessage(table, m, t)
            IN  /\ now' = t
                /\ nextUuid' = UuidAfter(message, nextUuid)
                /\ IF IsBlob
                   THEN /\ data' = SaveMessageData(data, m, t)
                        /\ durable' = SaveToFile(data', ok)
                        /\ last' = [op |-> "saveMessage", err |-> WriteOutcome(ok),
                                     arg |-> message, id |-> m.id]
                        /\ UNCHANGED table
                   ELSE /\ table' = r.table
                        /\ last' = [op |-> "saveMessage", err |-> r.err,
                                     arg |-> message, id |-> m.id]
                        /\ UNCHANGED <<data, durable>>
       /\ UNCHANGED <<kind, ready>>

SaveMessage(message) == SaveMessageWith(message, TRUE)

\* a saveMessages that stores nothing of a list
SaveNone(d, messages, uuid, t) == [data |-> d, uuid |-> uuid]

\* the loop of LocalStorage / S3Storage saveMessages: [data, uuid]
RECURSIVE SaveAllData(_, _, _, _)
SaveAllData(d, messages, uuid, t) ==
    IF messages = <<>> THEN [data |-> d, uuid |-> uuid]
    ELSE SaveAllData(SaveMessageData(d, AssignId(Head(messages), uuid), t),
                     Tail(messages), UuidAfter(Head(messages), uuid), t)

\* the loop of DynamoDBStorage saveMessages, left by the first save that
\* throws: [table, uuid, err, failed], failed the position of that save in
\* the list counted from `done` (0 when none throws)
RECURSIVE DynamoSaveFrom(_, _, _, _, _)
DynamoSaveFrom(tbl, messages, uuid, t, done) ==
    IF messages = <<>>
    THEN [table |-> tbl, uuid |-> uuid, err |-> NoError, failed |-> 0]
    ELSE LET r == DynamoSaveMessage(tbl, AssignId(Head(messages), uuid), t)
         IN  IF r.err # NoError
             THEN [table |-> r.table, uuid |-> UuidAfter(Head(messages), uuid),
                   err |-> r.err, failed |-> done + 1]
             ELSE DynamoSaveFrom(r.table, Tail(messages),
                                 UuidAfter(Head(messages), uuid), t, done + 1)

DynamoSaveAll(tbl, messages, uuid, t) == DynamoSaveFrom(tbl, messages, uuid, t, 0)

\* the number of list elements that need a generated id
RECURSIVE NeedIds(_)
NeedIds(messages) ==
    IF messages = <<>> THEN 0
    ELSE (IF TruthyStr(Head(messages).id) THEN 0 ELSE 1) + NeedIds(Tail(messages))

\* saveMessages(messages): the loop has no readiness check of its own, the
\* first saveMessage throws when the backend is not ready.  `fail` is the
\* position of the element whose write fails, 0 when every write goes
\* through: the loop is left there, with that element in memory
SaveMessagesWith(messages, fail) ==
    \/ messages # <<>> /\ NotReady("saveMessages")
    \/ /\ ready \/ messages = <<>>
       /\ fail \in 0..Len(messages)
       /\ IsBlob \/ fail = 0
       /\ nextUuid + NeedIds(messages) <= Min(MaxUuid, Len(UuidPool))
       /\ \E t \in Instants :
            LET reached == IF fail = 0 THEN messages ELSE SubSeq(messages, 1, fail)
                b == SaveAllData(data, reached, nextUuid, t)
                written == IF fail = 0 THEN b.data
                           ELSE SaveAllData(data, SubSeq(messages, 1, fail - 1),
                                            nextUuid, t).data
                r == DynamoSaveAll(table, messages, nextUuid, t)
            IN  /\ now' = IF messages = <<>> THEN now ELSE t
                /\ IF IsBlob
                   THEN /\ data' = b.data
                        /\ durable' = IF messages = <<>> \/ fail = 1 THEN durable
                                      ELSE Stringify(written)
                        /\ nextUuid' = b.uuid
                        /\ last' = [op |-> "saveMessages",
                                     err |-> WriteOutcome(fail = 0), arg |-> messages,
                                     failed |-> fail]
                        /\ UNCHANGED table
                   ELSE /\ table' = r.table
                        /\ nextUuid' = r.uuid
                        /\ last' = [op |-> "saveMessages", err |-> r.err,
                                     arg |-> messages, failed |-> r.failed]
                        /\ UNCHANGED <<data, durable>>
       /\ UNCHANGED <<kind, ready>>

SaveMessages(messages) == SaveMessagesWith(messages, 0)

\* getMessage(messageId)
GetMessage(messageId) ==
    \/ NotReady("getMessage")
    \/ /\ ready
       /\ last' = [op |-> "getMessage", err |-> NoError, id |-> messageId,
                    ret |-> IF IsBlob THEN FindMessage(data.messages, messageId)
                            ELSE DynamoGetMessage(table, messageId)]
       /\ UNCHANGED <<kind, ready, data, durable, table, now, nextUuid>>

\* getSession(sessionId)
GetSession(sessionId) ==
    \/ NotReady("getSession")
    \/ /\ ready
       /\ last' = [op |-> "getSession", err |-> NoError, id |-> sessionId,
                    ret |-> IF IsBlob THEN FindSession(data.sessions, sessionId)
                            ELSE DynamoGetSession(table, sessionId)]
       /\ UNCHANGED <<kind, ready, data, durable, table, now, nextUuid>>

\* getMessages(options)
GetMessages(options) ==
    \/ NotReady("getMessages")
    \/ /\ ready
       /\ last' = [op |-> "getMessages", err |-> NoError, options |-> options,
                    ret |-> IF IsBlob THEN GetMessagesData(data.messages, options)
                            ELSE DynamoGetMessages(table, options)]
       /\ UNCHANGED <<kind, ready, data, durable, table, now, nextUuid>>

\* updateSession(sessionId, updates)
UpdateSessionWith(sessionId, updates, ok) ==
    \/ NotReady("updateSession")
    \/ /\ ready
       /\ IsBlob \/ ok
       /\ \E t \in Instants :
            LET r == DynamoUpdateSession(table, sessionId, updates, t)
            IN  /\ now' = t
                /\ IF IsBlob
                   THEN /\ data' = [data EXCEPT
                                !.sessions = UpdateSessionInternal(@, sessionId, updates, t),
                                !.lastUpdated = t]
                        /\ durable' = SaveToFile(data', ok)
                        /\ last' = [op |-> "updateSession", err |-> WriteOutcome(ok),
                                     id |-> sessionId, updates |-> updates]
                        /\ UNCHANGED table
                   ELSE /\ table' = r.table
                        /\ last' = [op |-> "updateSession", err |-> r.err,
                                     id |-> sessionId, updates |-> updates]
                        /\ UNCHANGED <<data, durable>>
       /\ UNCHANGED <<kind, ready, nextUuid>>

UpdateSession(sessionId, updates) == UpdateSessionWith(sessionId, updates, TRUE)

\* deleteMessage(messageId): nothing is written when the id is not stored
DeleteMessageWith(messageId, ok) ==
    \/ NotReady("deleteMessage")
    \/ /\ ready
       /\ IsBlob \/ ok
       /\ \E t \in Instants :
            LET found == FindMessage(data.messages, messageId) # Null
                r == DynamoDeleteMessage(table, messageId, t)
            IN  /\ now' = t
                /\ IF IsBlob
                   THEN /\ data' = IF found THEN DeleteMessageData(data, messageId, t)
                                   ELSE data
                        /\ durable' = IF found THEN SaveToFile(data', ok) ELSE durable
                        /\ last' = [op |-> "deleteMessage",
                                     err |-> IF found THEN WriteOutcome(ok) ELSE NoError,
                                     id |-> messageId, found |-> found]
                        /\ UNCHANGED table
                   ELSE /\ table' = r.table
                        /\ last' = [op |-> "deleteMessage", err |-> r.err,
                                     id |-> messageId,
                                     found |-> DynamoGetMessage(table, messageId) # Null]
                        /\ UNCHANGED <<data, durable>>
       /\ UNCHANGED <<kind, ready, nextUuid>>

DeleteMessage(messageId) == DeleteMessageWith(messageId, TRUE)

\* deleteSession(sessionId)
DeleteSessionWith(sessionId, ok) ==
    \/ NotReady("deleteSession")
    \/ /\ ready
       /\ IsBlob \/ ok
       /\ \E t \in Instants :
            /\ now' = t
            /\ IF IsBlob
               THEN /\ data' = DeleteSessionData(data, sessionId, t)
                    /\ durable' = SaveToFile(data', ok)
                    /\ UNCHANGED table
               ELSE /\ table' = DynamoDeleteSession(table, sessionId)
                    /\ UNCHANGED <<data, durable>>
       /\ last' = [op |-> "deleteSession", err |-> WriteOutcome(ok), id |-> sessionId]
       /\ UNCHANGED <<kind, ready, nextUuid>>

DeleteSession(sessionId) == DeleteSessionWith(sessionId, TRUE)

\* clear()
ClearWith(ok) ==
    \/ NotReady("clear")
    \/ /\ ready
       /\ IsBlob \/ ok
       /\ \E t \in Instants :
            /\ now' = t
            /\ IF IsBlob
               THEN /\ data' = EmptyData(t)
                    /\ durable' = SaveToFile(data', ok)
                    /\ UNCHANGED table
               ELSE /\ table' = DynamoClear(table)
                    /\ UNCHANGED <<data, durable>>
       /\ last' = [op |-> "clear", err |-> WriteOutcome(ok)]
       /\ UNCHANGED <<kind, ready, nextUuid>>

Clear == ClearWith(TRUE)

---------------------------------------------------------------------------
(* Specifications *)

\* the messages passed to saveMessage: every id and session, and payloads
\* that differ from one another in each of the other fields
SaveInputs ==
    {m \in Messages :
        \/ m.role = "user" /\ m.content = "hi" /\ m.timestamp = 2 /\ m.metadata = NoMeta
        \/ m.role = "assistant" /\ m.content = "yo" /\ m.timestamp = 1
              /\ m.metadata # NoMeta /\ m.id # Undefined}

\* the argument lists of saveMessages
BatchMessages ==
    {m \in Messages : /\ m.role = "user" /\ m.content = "hi" /\ m.metadata = NoMeta
                      /\ m.timestamp = 2
                      /\ \/ m.id = Undefined /\ m.sessionId = "s1"
                         \/ m.id # Undefined /\ m.sessionId = "s2"}
Batches == {<<>>} \cup {<<a>> : a \in BatchMessages}
               \cup {<<a, b>> : a \in BatchMessages, b \in BatchMessages}

\* updates that carry only a title
TitleUpdates == {[title |-> x] : x \in Titles}

\* the queries of a session's history
HistoryOptions == {BySession(s) : s \in SessionIds}

\* a freshly constructed backend over an empty store
InitCommon ==
    /\ ready = FALSE
    /\ data = EmptyData(0)
    /\ durable = NoFile
    /\ now = 0
    /\ nextUuid = 0
    /\ last = [op |-> "new", err |-> NoError]
    /\ managerReady = FALSE
    /\ currentSessionId = NoSession
    /\ pending = <<>>
    /\ writes = <<>>
    /\ peer = NoPeer
    /\ faults = 0

\* LocalStorage over a file that does not exist yet
Init ==
    /\ kind = "local"
    /\ table = {}
    /\ InitCommon

\* S3Storage over an object that does not exist yet
InitS3 ==
    /\ kind = "s3"
    /\ table = {}
    /\ InitCommon

\* a session row as updateSession writes it, with no message counted
SeedSession(sessionId) ==
    SessionItem(sessionId, [id |-> sessionId, title |-> Undefined, createdAt |-> 0,
                            updatedAt |-> 0, messageCount |-> 0, metadata |-> NoMeta])

\* DynamoDBStorage over a table that holds session rows for some sessions
\* (the backend itself puts a session row only over an existing one)
InitDynamo ==
    /\ kind = "dynamodb"
    /\ \E seeded \in SUBSET SessionIds : table = {SeedSession(x) : x \in seeded}
    /\ InitCommon

InitAll == Init \/ InitDynamo

\* one awaited call on a backend that is used directly, without a manager
Next ==
    \/ Initialize /\ UNCHANGED <<managerVars, envVars>>
    \/ \E message \in SaveInputs : SaveMessage(message) /\ UNCHANGED <<managerVars, envVars>>
    \/ \E messages \in Batches : SaveMessages(messages) /\ UNCHANGED <<managerVars, envVars>>
    \/ \E messageId \in StoredIds : GetMessage(messageId) /\ UNCHANGED <<managerVars, envVars>>
    \/ \E sessionId \in SessionIds : GetSession(sessionId) /\ UNCHANGED <<managerVars, envVars>>
    \/ \E options \in HistoryOptions : GetMessages(options) /\ UNCHANGED <<managerVars, envVars>>
    \/ \E sessionId \in SessionIds, updates \in TitleUpdates :
            UpdateSession(sessionId, updates) /\ UNCHANGED <<managerVars, envVars>>
    \/ \E messageId \in StoredIds : DeleteMessage(messageId) /\ UNCHANGED <<managerVars, envVars>>
    \/ \E sessionId \in SessionIds : DeleteSession(sessionId) /\ UNCHANGED <<managerVars, envVars>>
    \/ Clear /\ UNCHANGED <<managerVars, envVars>>

\* calls with time passing between them
NextTimed == Next \/ (Tick /\ UNCHANGED <<managerVars, envVars>>)

\* LocalStorage, sequentially awaited calls, from an empty store
Spec == Init /\ [][Next]_vars

\* S3Storage: the same handlers over the object
SpecS3 == InitS3 /\ [][Next]_vars

\* DynamoDBStorage, sequentially awaited calls
SpecDynamo == InitDynamo /\ [][Next]_vars

\* LocalStorage with time passing between the calls
SpecTimed == Init /\ [][NextTimed]_vars

\* the file-backed and the wide-column backend side by side
SpecAll == InitAll /\ [][Next]_vars

---------------------------------------------------------------------------
(* getMessages over every store content: the store is filled by saving a   *)
(* list of messages, and one query is put to it.                           *)

\* the messages of the stores queried: generated ids, both sessions, both
\* roles, both timestamps
QueryMessages ==
    {m \in Messages : m.id = Undefined /\ m.content = "hi" /\ m.metadata = NoMeta}

RECURSIVE ListsUpTo(_, _)
ListsUpTo(S, n) ==
    IF n = 0 THEN {<<>>}
    ELSE ListsUpTo(S, n - 1) \cup
         {Append(l, x) : l \in {k \in ListsUpTo(S, n - 1) : Len(k) = n - 1}, x \in S}

\* filter combinations, without pagination
FilterOptions ==
    [sessionId : SessionIds \cup {Undefined, ""}, role : {Undefined, "user"},
     startDate : Timestamps \cup {NoNum}, endDate : Timestamps \cup {NoNum},
     limit : {NoNum}, offset : {NoNum}]

\* limit / offset combinations over all messages or one session
PageOptions ==
    [sessionId : {Undefined, "s1"}, role : {Undefined},
     startDate : {NoNum}, endDate : {NoNum},
     limit : {NoNum, 0, 1, 2, 3}, offset : {NoNum, 0, 1, 2, 4}]

InitQuery ==
    /\ kind \in {"local", "dynamodb"}
    /\ ready = TRUE
    /\ now = 0
    /\ \E list \in ListsUpTo(QueryMessages, Min(MaxStored, Len(UuidPool))) :
          /\ data = IF IsBlob THEN SaveAllData(EmptyData(0), list, 0, 0).data
                    ELSE EmptyData(0)
          /\ durable = IF IsBlob /\ list # <<>> THEN Stringify(data) ELSE NoFile
          /\ table = IF IsBlob THEN {}
                     ELSE DynamoSaveAll({SeedSession(x) : x \in SessionIds},
                                        list, 0, 0).table
          /\ nextUuid = Len(list)
    /\ last = [op |-> "initialize", err |-> NoError]
    /\ managerReady = FALSE
    /\ currentSessionId = NoSession
    /\ pending = <<>>
    /\ writes = <<>>
    /\ peer = NoPeer
    /\ faults = 0

NextQuery ==
    \/ /\ last.op = "initialize"
       /\ \E options \in FilterOptions : GetMessages(options)
       /\ UNCHANGED <<managerVars, envVars>>
    \/ /\ last.op = "initialize"
       /\ \E options \in PageOptions : GetMessages(options)
       /\ UNCHANGED <<managerVars, envVars>>

SpecQuery == InitQuery /\ [][NextQuery]_vars

---------------------------------------------------------------------------
(* MemoryManager: the current-session pointer over one backend.  A call is *)
(* one action; the promise chain startSession leaves behind runs in its own *)
(* steps, between the caller's awaited calls.                               *)

MaxPending == 1         \* promise chains of startSession in flight at once
MaxManagerUuid == 2     \* identifiers uuidv4() hands out to one manager

ManagerNotInitialized == "Memory manager not initialized"
NoActiveSession == "No active session. Call startSession() first."

storageVars == <<kind, ready, data, durable, table, now, nextUuid>>

\* `if (!this.currentSessionId) throw ...` passes
HasActiveSession(current) == current # NoSession /\ TruthyStr(current)

\* MemoryManager.initialize: `await this.storage.initialize(); this.ready = true`
ManagerInitialize ==
    /\ Initialize
    /\ managerReady' = TRUE
    /\ UNCHANGED <<currentSessionId, pending>>

\* startSession that takes the argument as the id, given or not
SessionIdAsGiven(sessionId, uuid) == sessionId

\* `const id = sessionId || uuidv4()`
SessionIdFor(sessionId, uuid) ==
    IF TruthyStr(sessionId) THEN sessionId ELSE UuidPool[uuid + 1]

\* the promise chain `this.storage.getSession(id).then(...)` as startSession
\* leaves it: LocalStorage / S3Storage getSession has no await, its lookup
\* is done when the call returns; DynamoDBStorage getSession awaits the
\* GetCommand.  On a backend that is not ready getSession rejects and the
\* callback never runs.
Chain(id, title) ==
    IF ~ready THEN <<>>
    ELSE IF IsBlob
         THEN <<[id |-> id, title |-> title, stage |-> "then",
                 found |-> FindSession(data.sessions, id) # Null]>>
         ELSE <<[id |-> id, title |-> title, stage |-> "getSession",
                 found |-> FALSE]>>

\* startSession(sessionId?, title?)
StartSession(sessionId, title) ==
    \/ /\ ~managerReady
       /\ last' = [op |-> "startSession", err |-> ManagerNotInitialized,
                    arg |-> sessionId, title |-> title, id |-> Undefined]
       /\ UNCHANGED <<storageVars, managerVars>>
    \/ /\ managerReady
       /\ Len(pending) < MaxPending
       /\ TruthyStr(sessionId) \/ nextUuid < Min(MaxManagerUuid, Len(UuidPool))
       /\ LET id == SessionIdFor(sessionId, nextUuid)
          IN  /\ currentSessionId' = id
              /\ nextUuid' = IF TruthyStr(sessionId) THEN nextUuid ELSE nextUuid + 1
              /\ pending' = pending \o Chain(id, title)
              /\ last' = [op |-> "startSession", err |-> NoError,
                           arg |-> sessionId, title |-> title, id |-> id]
       /\ UNCHANGED <<kind, ready, data, durable, table, now, managerReady>>

\* the GetCommand of a chain's getSession returns
GetSessionReturns(i) ==
    /\ i \in 1..Len(pending)
    /\ pending[i].stage = "getSession"
    /\ pending' = [pending EXCEPT ![i] =
            [@ EXCEPT !.stage = "then",
                      !.found = DynamoGetSession(table, pending[i].id) # Null]]
    /\ UNCHANGED <<storageVars, last, managerReady, currentSessionId>>

\* the updates of the chain's updateSession call
StartUpdates(title) == [title |-> title, messageCount |-> 0]

\* the callback of a chain: `if (!session) this.storage.updateSession(id,
\* { title, messageCount: 0 })`, not awaited, its rejection unhandled
ThenCallback(i) ==
    /\ i \in 1..Len(pending)
    /\ pending[i].stage = "then"
    /\ pending' = Splice(pending, i)
    /\ IF pending[i].found
       THEN UNCHANGED <<storageVars, last>>
       ELSE UpdateSession(pending[i].id, StartUpdates(pending[i].title))
    /\ UNCHANGED <<managerReady, currentSessionId>>

\* setCurrentSession(sessionId)
SetCurrentSession(sessionId) ==
    /\ currentSessionId' = sessionId
    /\ last' = [op |-> "setCurrentSession", err |-> NoError, id |-> sessionId]
    /\ UNCHANGED <<storageVars, managerReady, pending>>

\* a manager that saves without looking at the current-session pointer
SaveGuardSkipped(current) == TRUE

\* the guard of saveUserMessage / saveAssistantMessage / saveSystemMessage
SaveGuard(current) == HasActiveSession(current)

\* the message the three save operations construct
ManagerMessage(role, content, uuid, t) ==
    [id |-> UuidPool[uuid + 1], sessionId |-> currentSessionId, role |-> role,
     content |-> content, timestamp |-> t, metadata |-> NoMeta]

\* what save{User,Assistant,System}Message does once its guard has passed
\* and `delay` has gone by: the message with a generated id, the session
\* that is current now and the current time, `await this.storage.saveMessage`
ManagerSaveBody(op, role, content, delay) ==
       /\ nextUuid < Min(MaxManagerUuid, Len(UuidPool))
       /\ now + delay <= MaxClock
       /\ LET t == now + delay
              m == ManagerMessage(role, content, nextUuid, t)
              r == DynamoSaveMessage(table, m, t)
          IN  /\ now' = t
              /\ nextUuid' = nextUuid + 1
              /\ IF ~ready
                 THEN /\ last' = [op |-> op, err |-> NotInitialized, arg |-> m,
                                   id |-> m.id, content |-> content]
                      /\ UNCHANGED <<data, durable, table>>
                 ELSE IF IsBlob
                 THEN /\ data' = SaveMessageData(data, m, t)
                      /\ durable' = Stringify(data')
                      /\ last' = [op |-> op, err |-> NoError, arg |-> m, id |-> m.id,
                                   content |-> content]
                      /\ UNCHANGED table
                 ELSE /\ table' = r.table
                      /\ last' = [op |-> op, err |-> r.err, arg |-> m, id |-> m.id,
                                   content |-> content]
                      /\ UNCHANGED <<data, durable>>
       /\ UNCHANGED <<kind, ready, managerVars>>

\* save{User,Assistant,System}Message(content), awaited: the guard, then the
\* rest; `delay` is the time the call waits before it constructs the message
ManagerSave(op, role, content, delay) ==
    \/ /\ ~SaveGuard(currentSessionId)
       /\ last' = [op |-> op, err |-> NoActiveSession]
       /\ UNCHANGED <<storageVars, managerVars>>
    \/ /\ SaveGuard(currentSessionId)
       /\ ManagerSaveBody(op, role, content, delay)

SaveUserMessage(content) == ManagerSave("saveUserMessage", "user", content, 0)

\* `await new Promise(resolve => setTimeout(resolve, 1))`: at least 1 ms pass
SaveAssistantMessage(content) ==
    \E delay \in 1..MaxClock :
        ManagerSave("saveAssistantMessage", "assistant", content, delay)

SaveSystemMessage(content) == ManagerSave("saveSystemMessage", "system", content, 0)

\* the options of getCurrentSessionHistory / getSessionHistory
HistoryQuery(sessionId, limit) == [BySession(sessionId) EXCEPT !.limit = limit]

\* storage.getMessages(options).messages, or the backend's error
History(op, options) ==
    /\ last' = IF ~ready
               THEN [op |-> op, err |-> NotInitialized]
               ELSE [op |-> op, err |-> NoError, options |-> options,
                     ret |-> IF IsBlob
                             THEN GetMessagesData(data.messages, options).messages
                             ELSE DynamoGetMessages(table, options).messages]
    /\ UNCHANGED <<storageVars, managerVars>>

\* getCurrentSessionHistory(limit?)
GetCurrentSessionHistory(limit) ==
    \/ /\ ~HasActiveSession(currentSessionId)
       /\ last' = [op |-> "getCurrentSessionHistory", err |-> NoActiveSession]
       /\ UNCHANGED <<storageVars, managerVars>>
    \/ /\ HasActiveSession(currentSessionId)
       /\ History("getCurrentSessionHistory", HistoryQuery(currentSessionId, limit))

\* getSessionHistory(sessionId, limit?)
GetSessionHistory(sessionId, limit) ==
    History("getSessionHistory", HistoryQuery(sessionId, limit))

\* a deleteSession that always clears the pointer
PointerAfterDeleteAlways(current, sessionId) == NoSession

\* `if (this.currentSessionId === sessionId) this.currentSessionId = null`
PointerAfterDelete(current, sessionId) ==
    IF current = sessionId THEN NoSession ELSE current

\* MemoryManager.deleteSession: the pointer is looked at after the awaited
\* backend call, and not at all when that call throws
ManagerDeleteSession(sessionId) ==
    /\ DeleteSession(sessionId)
    /\ currentSessionId' = IF last'.err = NoError
                           THEN PointerAfterDelete(currentSessionId, sessionId)
                           ELSE currentSessionId
    /\ UNCHANGED <<managerReady, pending>>

\* MemoryManager.clear: `await this.storage.clear(); this.currentSessionId = null`
ManagerClear ==
    /\ Clear
    /\ currentSessionId' = IF last'.err = NoError THEN NoSession
                           ELSE currentSessionId
    /\ UNCHANGED <<managerReady, pending>>

\* the arguments of the manager's calls: a session id given, omitted or
\* empty; a title given or omitted; a limit given or omitted
SessionArgs == {"s1", Undefined, ""}
TitleArgs == Titles \cup {Undefined}
LimitArgs == {NoNum}
ManagerContents == {"hi"}

\* a manager over a LocalStorage on no file, or over a DynamoDBStorage on a
\* table that holds no session row or the one of s1
InitManager ==
    \/ Init
    \/ /\ kind = "dynamodb"
       /\ table \in {{}, {SeedSession("s1")}}
       /\ InitCommon

\* one awaited call on the manager, or a step of a promise chain; time
\* passes while saveAssistantMessage waits
NextManager ==
    \/ ManagerInitialize /\ UNCHANGED envVars
    \/ \E sessionId \in SessionArgs, title \in Titles : StartSession(sessionId, title) /\ UNCHANGED envVars
    \/ \E i \in 1..MaxPending : GetSessionReturns(i) /\ UNCHANGED envVars
    \/ \E i \in 1..MaxPending : ThenCallback(i) /\ UNCHANGED envVars
    \/ SetCurrentSession("s2") /\ UNCHANGED envVars
    \/ \E content \in ManagerContents : SaveUserMessage(content) /\ UNCHANGED envVars
    \/ \E content \in ManagerContents : SaveAssistantMessage(content) /\ UNCHANGED envVars
    \/ \E content \in ManagerContents : SaveSystemMessage(content) /\ UNCHANGED envVars
    \/ \E limit \in LimitArgs : GetCurrentSessionHistory(limit) /\ UNCHANGED envVars
    \/ \E sessionId \in SessionIds : ManagerDeleteSession(sessionId) /\ UNCHANGED envVars
    \/ ManagerClear /\ UNCHANGED envVars

SpecManager == InitManager /\ [][NextManager]_vars

\* LocalStorage.updateSession with the fields a caller may give, next to
\* saves and deletes, with time passing between the calls
UpdateInputs ==
    {[title |-> "x"], [messageCount |-> 0], [title |-> "t", metadata |-> [k |-> "v"]]}

UpdateSaves ==
    {m \in Messages : /\ m.role = "user" /\ m.content = "hi" /\ m.metadata = NoMeta
                      /\ m.timestamp = 2 /\ m.id = Undefined}

NextUpdate ==
    \/ Initialize /\ UNCHANGED <<managerVars, envVars>>
    \/ \E message \in UpdateSaves : SaveMessage(message) /\ UNCHANGED <<managerVars, envVars>>
    \/ \E sessionId \in SessionIds, updates \in UpdateInputs :
            UpdateSession(sessionId, updates) /\ UNCHANGED <<managerVars, envVars>>
    \/ \E sessionId \in SessionIds : DeleteSession(sessionId) /\ UNCHANGED <<managerVars, envVars>>
    \/ Tick /\ UNCHANGED <<managerVars, envVars>>

SpecUpdate == Init /\ [][NextUpdate]_vars

\* startSession on an initialized manager and nothing after it but the steps
\* of its promise chain, which the event loop runs to their end
StartMessages ==
    {m \in Messages : m.id = Undefined /\ m.role = "user" /\ m.content = "hi"
                      /\ m.timestamp = 1 /\ m.metadata = NoMeta}

InitStart ==
    /\ kind \in {"local", "dynamodb"}
    /\ ready = TRUE
    /\ managerReady = TRUE
    /\ now = 0
    /\ \E list \in ListsUpTo(StartMessages, 1), seeded \in SUBSET SessionIds :
          /\ IsBlob => seeded = {}
          /\ data = IF IsBlob THEN SaveAllData(EmptyData(0), list, 0, 0).data
                    ELSE EmptyData(0)
          /\ durable = IF IsBlob /\ list # <<>> THEN Stringify(data) ELSE NoFile
          /\ table = IF IsBlob THEN {}
                     ELSE DynamoSaveAll({SeedSession(x) : x \in seeded}, list, 0, 0).table
          /\ nextUuid = Len(list)
    /\ last = [op |-> "initialize", err |-> NoError]
    /\ currentSessionId = NoSession
    /\ pending = <<>>
    /\ writes = <<>>
    /\ peer = NoPeer
    /\ faults = 0

ChainStep ==
    \/ \E i \in 1..MaxPending : GetSessionReturns(i) /\ UNCHANGED envVars
    \/ \E i \in 1..MaxPending : ThenCallback(i) /\ UNCHANGED envVars

NextStart ==
    \/ /\ last.op = "initialize"
       /\ \E sessionId \in SessionIds \cup {Undefined}, title \in TitleArgs :
             StartSession(sessionId, title)
       /\ UNCHANGED envVars
    \/ \E i \in 1..MaxPending : GetSessionReturns(i) /\ UNCHANGED envVars
    \/ \E i \in 1..MaxPending : ThenCallback(i) /\ UNCHANGED envVars
    \/ \E sessionId \in SessionIds, limit \in LimitArgs :
            GetSessionHistory(sessionId, limit) /\ UNCHANGED envVars

SpecStart == InitStart /\ [][NextStart]_vars /\ WF_vars(ChainStep)

---------------------------------------------------------------------------
(* createLangChainMemory: the adapter's saveContext over the manager.  The  *)
(* backend's write may fail while it runs.                                  *)

\* what `inputValues.input` throws when inputValues is null
TypeError == "TypeError"

\* obj.key: undefined when the object does not have the property
Prop(obj, key) == IF key \in DOMAIN obj THEN obj[key] ELSE Undefined

\* a || b for optional strings
OrElse(a, b) == IF TruthyStr(a) THEN a ELSE b

\* outputValues.output || outputValues.response || outputValues.text ||
\* outputValues.result
OutputOf(outputValues) ==
    OrElse(Prop(outputValues, "output"),
        OrElse(Prop(outputValues, "response"),
            OrElse(Prop(outputValues, "text"), Prop(outputValues, "result"))))

\* the backend's store as one value
Store == [data |-> data, durable |-> durable, table |-> table]

\* this.storage.saveMessage(m) at time t on the store s: the store
\* afterwards and the error the call rejects with
StorageSave(s, m, t, ok) ==
    IF ~ready
    THEN [data |-> s.data, durable |-> s.durable, table |-> s.table,
          err |-> NotInitialized]
    ELSE IF IsBlob
    THEN LET d == SaveMessageData(s.data, m, t)
         IN  [data |-> d, durable |-> IF ok THEN Stringify(d) ELSE s.durable,
              table |-> s.table, err |-> WriteOutcome(ok)]
    ELSE LET r == DynamoSaveMessage(s.table, m, t)
         IN  [data |-> s.data, durable |-> s.durable, table |-> r.table,
              err |-> r.err]

\* save{User,Assistant}Message as saveContext awaits it: [store, err, uuid]
ContextSave(s, role, content, uuid, t, ok) ==
    IF ~SaveGuard(currentSessionId)
    THEN [store |-> s, err |-> NoActiveSession, uuid |-> uuid]
    ELSE LET r == StorageSave(s, ManagerMessage(role, content, uuid, t), t, ok)
         IN  [store |-> [data |-> r.data, durable |-> r.durable, table |-> r.table],
              err |-> r.err, uuid |-> uuid + 1]

\* a saveContext whose catch block throws the error on
CatchAndRethrow(error) == error

\* `catch (error) { console.error('Error saving context:', error); }`: what
\* saveContext rejects with after it caught error
CatchAndLog(error) == NoError

\* saveContext(inputValues, outputValues): the user message, then, after the
\* delays, the assistant message; the first error ends the try block.
\* `delay` is the time that passes before the assistant message is built
SaveContext(inputValues, outputValues, okUser, okAssistant, delay) ==
    LET input == IF inputValues = Null THEN Undefined ELSE Prop(inputValues, "input")
        output == IF outputValues = Null THEN Undefined ELSE OutputOf(outputValues)
    IN  \E user \in {IF inputValues = Null
                     THEN [store |-> Store, err |-> TypeError, uuid |-> nextUuid]
                     ELSE IF TruthyStr(input)
                     THEN ContextSave(Store, "user", input, nextUuid, now, okUser)
                     ELSE [store |-> Store, err |-> NoError, uuid |-> nextUuid]} :
        \E t \in {IF user.err = NoError /\ TruthyStr(output)
                  THEN now + delay ELSE now} :
        \E assistant \in {IF user.err # NoError THEN user
                          ELSE IF outputValues = Null
                          THEN [user EXCEPT !.err = TypeError]
                          ELSE IF TruthyStr(output)
                          THEN ContextSave(user.store, "assistant", output,
                                           user.uuid, t, okAssistant)
                          ELSE user} :
            /\ IsBlob \/ (okUser /\ okAssistant)
            /\ t <= MaxClock
            /\ assistant.uuid <= Min(MaxManagerUuid, Len(UuidPool))
            /\ data' = assistant.store.data
            /\ durable' = assistant.store.durable
            /\ table' = assistant.store.table
            /\ now' = t
            /\ nextUuid' = assistant.uuid
            /\ last' = [op |-> "saveContext", err |-> CatchAndLog(assistant.err),
                         caught |-> assistant.err, first |-> user.err,
                         inputValues |-> inputValues, outputValues |-> outputValues]
            /\ UNCHANGED <<kind, ready, managerVars>>

\* the arguments LangChain passes: the turn's input and the chain's output
\* under one of its names, an object without them, or null
InputArgs == {[input |-> "hi"], [input |-> ""], [question |-> "hi"], Null}
OutputArgs == {[output |-> "yo"], [response |-> "yo"], [output |-> "", text |-> "yo"],
               [generations |-> "yo"], Null}

\* MemoryManager.initialize over a backend whose initialize may throw
ManagerInitializeWith(ok) ==
    /\ InitializeWith(ok)
    /\ managerReady' = (managerReady \/ ok)
    /\ UNCHANGED <<currentSessionId, pending>>

NextContext ==
    \/ \E ok \in BOOLEAN : ManagerInitializeWith(ok) /\ UNCHANGED envVars
    \/ SetCurrentSession("s1") /\ UNCHANGED envVars
    \/ \E inputValues \in InputArgs, outputValues \in OutputArgs,
          okUser \in BOOLEAN, okAssistant \in BOOLEAN, delay \in {1} :
            SaveContext(inputValues, outputValues, okUser, okAssistant, delay)
            /\ UNCHANGED envVars
    \/ \E limit \in LimitArgs : GetCurrentSessionHistory(limit) /\ UNCHANGED envVars
    \/ ManagerClear /\ UNCHANGED envVars

\* the adapter over a manager on LocalStorage or DynamoDBStorage
SpecContext == InitManager /\ [][NextContext]_vars

---------------------------------------------------------------------------
(* getStats *)

\* `null` where a Date is expected
NullDate == -2

\* Math.min(...timestamps) / Math.max(...timestamps) of a non-empty array
RECURSIVE MathMin(_)
MathMin(arr) ==
    IF Len(arr) = 1 THEN arr[1] ELSE Min(arr[1], MathMin(Tail(arr)))

RECURSIVE MathMax(_)
MathMax(arr) ==
    IF Len(arr) = 1 THEN arr[1] ELSE Max(arr[1], MathMax(Tail(arr)))

\* a getStats that divides without looking at the number of sessions
AverageUnguarded(totalMessages, totalSessions) ==
    [num |-> totalMessages, den |-> totalSessions]

\* `totalSessions > 0 ? totalMessages / totalSessions : 0`, the quotient kept
\* as numerator and denominator
Average(totalMessages, totalSessions) ==
    IF totalSessions > 0 THEN [num |-> totalMessages, den |-> totalSessions]
    ELSE [num |-> 0, den |-> 1]

\* the MemoryStats object built from the two counts and the messages
Stats(totalSessions, totalMessages, messages) ==
    LET timestamps == [i \in 1..Len(messages) |-> messages[i].timestamp]
    IN  [totalSessions |-> totalSessions,
         totalMessages |-> totalMessages,
         oldestMessage |-> IF Len(timestamps) > 0 THEN MathMin(timestamps)
                           ELSE NullDate,
         newestMessage |-> IF Len(timestamps) > 0 THEN MathMax(timestamps)
                           ELSE NullDate,
         averageMessagesPerSession |-> Average(totalMessages, totalSessions)]

\* LocalStorage / S3Storage getStats
GetStatsData(d) == Stats(Len(d.sessions), Len(d.messages), d.messages)

\* a getSessions that returns the records in the order they are stored
SessionsAsStored(arr) == arr

\* sort((a, b) => b.updatedAt.getTime() - a.updatedAt.getTime())
RECURSIVE InsertByUpdatedAt(_, _)
InsertByUpdatedAt(sorted, x) ==
    IF sorted = <<>> THEN <<x>>
    ELSE IF Head(sorted).updatedAt < x.updatedAt THEN <<x>> \o sorted
    ELSE <<Head(sorted)>> \o InsertByUpdatedAt(Tail(sorted), x)

RECURSIVE SortByUpdatedAt(_)
SortByUpdatedAt(arr) ==
    IF arr = <<>> THEN <<>>
    ELSE InsertByUpdatedAt(SortByUpdatedAt(SubSeq(arr, 1, Len(arr) - 1)),
                           arr[Len(arr)])

\* DynamoDBStorage.getSessions
DynamoGetSessions(tbl) ==
    LET items == DynamoScanPrefix(tbl, "SESSION")
    IN  SortByUpdatedAt([i \in 1..Len(items) |-> SessionOfItem(items[i])])

\* DynamoDBStorage.getStats: getSessions(), then getMessages() with no option
DynamoGetStats(tbl) ==
    LET sessions == DynamoGetSessions(tbl)
        messages == DynamoGetMessages(tbl, BySession(Undefined))
    IN  Stats(Len(sessions), messages.total, messages.messages)

\* getStats()
GetStats ==
    \/ NotReady("getStats")
    \/ /\ ready
       /\ last' = [op |-> "getStats", err |-> NoError,
                    ret |-> IF IsBlob THEN GetStatsData(data)
                            ELSE DynamoGetStats(table)]
       /\ UNCHANGED <<kind, ready, data, durable, table, now, nextUuid>>

\* the messages the statistics are taken over: both sessions, both instants
StatsMessages ==
    {m \in Messages : m.role = "user" /\ m.content = "hi" /\ m.metadata = NoMeta}

NextStats ==
    \/ Initialize /\ UNCHANGED <<managerVars, envVars>>
    \/ \E message \in StatsMessages : SaveMessage(message)
            /\ UNCHANGED <<managerVars, envVars>>
    \/ \E messageId \in StoredIds : DeleteMessage(messageId)
            /\ UNCHANGED <<managerVars, envVars>>
    \/ \E sessionId \in SessionIds : DeleteSession(sessionId)
            /\ UNCHANGED <<managerVars, envVars>>
    \/ Clear /\ UNCHANGED <<managerVars, envVars>>
    \/ GetStats /\ UNCHANGED <<managerVars, envVars>>

\* getStats next to saves and deletes, on LocalStorage and on DynamoDBStorage
SpecStats == InitAll /\ [][NextStats]_vars

---------------------------------------------------------------------------
(* The backends with an environment that may fail: a write of the blob that *)
(* does not go through, an initialize that cannot reach its store.          *)

\* messages saved one by one: an id given or to be generated, both sessions
FaultMessages ==
    {m \in Messages : /\ m.role = "user" /\ m.content = "hi" /\ m.metadata = NoMeta
                      /\ m.timestamp = 2 /\ m.sessionId = "s1"}

\* argument lists of saveMessages of up to two distinct elements of S
BatchesOf(S) ==
    {<<>>} \cup {<<a>> : a \in S} \cup {p \in S \X S : p[1] # p[2]}

\* a blob backend is given messages of one session; DynamoDB, whose
\* saveMessage fails on a session it has no record of, messages of two
FaultBatches == BatchesOf(IF IsBlob THEN FaultMessages ELSE BatchMessages)

\* LocalStorage on no file, or DynamoDBStorage on a table that holds the
\* session record of s2 and none of s1
InitFault ==
    \/ Init
    \/ /\ kind = "dynamodb"
       /\ table = {SeedSession("s2")}
       /\ InitCommon

MaxFaults == 1      \* writes of the blob that fail in one run

\* the environment lets the write fail (ok = FALSE) MaxFaults times
Fault(ok) ==
    /\ ok \/ faults < MaxFaults
    /\ faults' = IF last'.err = WriteFailed THEN faults + 1 ELSE faults
    /\ UNCHANGED <<managerVars, writes, peer>>

NextFault ==
    \/ Initialize /\ UNCHANGED <<managerVars, envVars>>
    \/ \E message \in FaultMessages, ok \in BOOLEAN :
            SaveMessageWith(message, ok) /\ Fault(ok)
    \/ \E messages \in FaultBatches, fail \in 0..2 :
            SaveMessagesWith(messages, fail) /\ Fault(fail = 0)
    \/ \E messageId \in StoredIds : GetMessage(messageId)
            /\ UNCHANGED <<managerVars, envVars>>
    \/ \E updates \in TitleUpdates, ok \in BOOLEAN :
            UpdateSessionWith("s1", updates, ok) /\ Fault(ok)
    \/ \E messageId \in StoredIds, ok \in BOOLEAN :
            DeleteMessageWith(messageId, ok) /\ Fault(ok)
    \/ \E ok \in BOOLEAN : DeleteSessionWith("s1", ok) /\ Fault(ok)
    \/ \E ok \in BOOLEAN : ClearWith(ok) /\ Fault(ok)

\* sequentially awaited calls on one backend, any of which may meet a fault
SpecFault == InitFault /\ [][NextFault]_vars

---------------------------------------------------------------------------
(* LocalStorage / S3Storage: saveMessage calls that are not awaited one by one *)

MaxWrites == 2      \* saveMessage calls issued in one run

\* the part of saveMessage that runs before saveToFile / saveToS3: the
\* message is in this.data.messages and its session record is updated
\* (updateSessionInternal has no await inside), lastUpdated is not touched
SaveMessageSync(d, message, t) ==
    [SaveMessageData(d, message, t) EXCEPT !.lastUpdated = d.lastUpdated]

\* a write that puts in the blob what memory holds when it lands
WrittenContentLate(w, d) == Stringify(d)

\* what a write in flight puts in the blob: the string saveToFile built
\* from this.data when it was called
WrittenContent(w, d) == w.content

\* saveMessage(message) up to its `await this.updateSessionInternal(...)`;
\* the caller does not await the promise it gets
BeginSave(message) ==
    /\ ready /\ IsBlob
    /\ Len(writes) < MaxWrites
    /\ UuidAfter(message, nextUuid) <= Min(MaxUuid, Len(UuidPool))
    /\ LET m == AssignId(message, nextUuid)
       IN  /\ data' = SaveMessageSync(data, m, now)
           /\ nextUuid' = UuidAfter(message, nextUuid)
           /\ writes' = Append(writes, [id |-> m.id, sessionId |-> m.sessionId,
                                        stage |-> "updated", snap |-> 0,
                                        content |-> NoFile])
           /\ last' = [op |-> "saveMessage", err |-> NoError, arg |-> message,
                        id |-> m.id, settled |-> FALSE]
    /\ UNCHANGED <<kind, ready, durable, table, now, managerVars, peer, faults>>

\* the continuation of that await, run as a microtask in the order the
\* calls were made: saveToFile sets lastUpdated, serializes this.data as it
\* is now and hands the string to fs.writeFile / PutObjectCommand
SaveToFileStarts(i) ==
    /\ writes[i].stage = "updated"
    /\ \A j \in 1..(i - 1) : writes[j].stage # "updated"
    /\ data' = [data EXCEPT !.lastUpdated = now]
    /\ writes' = [writes EXCEPT ![i] = [@ EXCEPT !.stage = "writing",
                                                 !.snap = Len(writes),
                                                 !.content = Stringify(data')]]
    /\ last' = [op |-> "saveToFile", err |-> NoError, id |-> writes[i].id,
                 settled |-> FALSE]
    /\ UNCHANGED <<kind, ready, durable, table, now, nextUuid, managerVars, peer, faults>>

\* a write in flight completes and its saveMessage resolves; writes in
\* flight complete in any order, after the microtasks have run
WriteLands(i) ==
    /\ writes[i].stage = "writing"
    /\ \A j \in 1..Len(writes) : writes[j].stage # "updated"
    /\ durable' = WrittenContent(writes[i], data)
    /\ writes' = [writes EXCEPT ![i].stage = "done"]
    /\ last' = [op |-> "saveMessage", err |-> NoError, id |-> writes[i].id,
                 settled |-> TRUE]
    /\ UNCHANGED <<kind, ready, data, table, now, nextUuid, managerVars, peer, faults>>

\* initialize() is awaited once, before the first saveMessage
NextRace ==
    \/ ~ready /\ Initialize /\ UNCHANGED <<managerVars, envVars>>
    \/ Tick /\ UNCHANGED <<managerVars, envVars>>
    \/ \E message \in FaultMessages : BeginSave(message)
    \/ \E i \in 1..Len(writes) : SaveToFileStarts(i)
    \/ \E i \in 1..Len(writes) : WriteLands(i)

\* one LocalStorage instance whose saveMessage calls overlap
SpecRace == Init /\ [][NextRace]_vars

---------------------------------------------------------------------------
(* two LocalStorage / S3Storage instances over the same file / object *)

\* a second instance that reads the blob again before it saves
PeerBaseReload(p, file) == IF file = NoFile THEN p.data ELSE Revive(file)

\* the structure a save of the second instance starts from: its own
\* this.data, loaded once by initialize() and never read from the blob again
PeerBase(p, file) == p.data

\* initialize() of the second instance
PeerInitialize ==
    /\ IsBlob
    /\ peer' = [ready |-> TRUE,
                data |-> IF durable = NoFile
                         THEN (IF peer.ready THEN peer.data ELSE EmptyData(0))
                         ELSE Revive(durable)]
    /\ last' = [op |-> "initialize", err |-> NoError, by |-> "peer"]
    /\ UNCHANGED <<kind, ready, data, durable, table, now, nextUuid,
                   managerVars, writes, faults>>

\* saveMessage(message) of the second instance, awaited
PeerSave(message) ==
    /\ IsBlob
    /\ peer.ready
    /\ UuidAfter(message, nextUuid) <= Min(MaxUuid, Len(UuidPool))
    /\ LET m == AssignId(message, nextUuid)
           d == SaveMessageData(PeerBase(peer, durable), m, now)
       IN  /\ peer' = [peer EXCEPT !.data = d]
           /\ durable' = Stringify(d)
           /\ nextUuid' = UuidAfter(message, nextUuid)
           /\ last' = [op |-> "saveMessage", err |-> NoError, arg |-> message,
                        id |-> m.id, by |-> "peer"]
    /\ UNCHANGED <<kind, ready, data, table, now, managerVars, writes, faults>>

NextPeers ==
    \/ Initialize /\ UNCHANGED <<managerVars, envVars>>
    \/ PeerInitialize
    \/ Tick /\ UNCHANGED <<managerVars, envVars>>
    \/ \E message \in FaultMessages : SaveMessage(message)
            /\ UNCHANGED <<managerVars, envVars>>
    \/ \E message \in FaultMessages : PeerSave(message)

\* two LocalStorage instances constructed over the same file that does not
\* exist yet, each making awaited calls
SpecPeers == Init /\ [][NextPeers]_vars

---------------------------------------------------------------------------
(* readiness: initialize() of a backend and of a manager may fail *)

\* MemoryManager.isReady(): `this.ready && this.storage.isReady()`
ManagerIsReady == managerReady /\ ready

\* a manager whose backend is also reached directly (getStorage()); either
\* initialize() may fail, any number of times
NextReady ==
    \/ \E ok \in BOOLEAN : InitializeWith(ok) /\ UNCHANGED <<managerVars, envVars>>
    \/ \E ok \in BOOLEAN : ManagerInitializeWith(ok) /\ UNCHANGED envVars
    \/ \E message \in FaultMessages : SaveMessage(message)
            /\ UNCHANGED <<managerVars, envVars>>
    \/ \E messages \in BatchesOf(FaultMessages) : SaveMessages(messages)
            /\ UNCHANGED <<managerVars, envVars>>
    \/ \E messageId \in StoredIds : GetMessage(messageId)
            /\ UNCHANGED <<managerVars, envVars>>
    \/ GetSession("s1") /\ UNCHANGED <<managerVars, envVars>>
    \/ GetMessages(BySession("s1")) /\ UNCHANGED <<managerVars, envVars>>
    \/ \E updates \in TitleUpdates : UpdateSession("s1", updates)
            /\ UNCHANGED <<managerVars, envVars>>
    \/ \E messageId \in StoredIds : DeleteMessage(messageId)
            /\ UNCHANGED <<managerVars, envVars>>
    \/ DeleteSession("s1") /\ UNCHANGED <<managerVars, envVars>>
    \/ GetStats /\ UNCHANGED <<managerVars, envVars>>
    \/ Clear /\ UNCHANGED <<managerVars, envVars>>

\* each of the three backends, freshly constructed
InitReady == InitS3 \/ InitFault

SpecReady == InitReady /\ [][NextReady]_vars

---------------------------------------------------------------------------
(* getSessions *)

\* getSessions()
GetSessions ==
    \/ NotReady("getSessions")
    \/ /\ ready
       /\ last' = [op |-> "getSessions", err |-> NoError,
                    ret |-> IF IsBlob THEN SortByUpdatedAt(data.sessions)
                            ELSE DynamoGetSessions(table)]
       /\ UNCHANGED <<kind, ready, data, durable, table, now, nextUuid>>

\* getSessions next to the calls that touch a session, with time passing
\* between the calls or not
NextSessions ==
    \/ Initialize /\ UNCHANGED <<managerVars, envVars>>
    \/ Tick /\ UNCHANGED <<managerVars, envVars>>
    \/ \E message \in BatchMessages : SaveMessage(message)
            /\ UNCHANGED <<managerVars, envVars>>
    \/ \E sessionId \in SessionIds, updates \in TitleUpdates :
            UpdateSession(sessionId, updates) /\ UNCHANGED <<managerVars, envVars>>
    \/ \E sessionId \in SessionIds : DeleteSession(sessionId)
            /\ UNCHANGED <<managerVars, envVars>>
    \/ GetSessions /\ UNCHANGED <<managerVars, envVars>>

SpecSessions == InitAll /\ [][NextSessions]_vars

---------------------------------------------------------------------------
(* saveAssistantMessage with its ordering delay: the call checks the active
   session, waits `await new Promise(resolve => setTimeout(resolve, 1))`,
   and only then reads `this.currentSessionId` to build the message.  The
   calls of the manager that run while it waits are the ones a caller makes
   without awaiting saveAssistantMessage.  `writes` holds the calls that are
   waiting; `called` is the session that was current when the call began. *)

\* saveAssistantMessage up to its first await: the guard, then the timer
BeginAssistant(content) ==
    \/ /\ ~SaveGuard(currentSessionId)
       /\ last' = [op |-> "saveAssistantMessage", err |-> NoActiveSession]
       /\ UNCHANGED <<storageVars, managerVars, envVars>>
    \/ /\ SaveGuard(currentSessionId)
       /\ Len(writes) < MaxWrites
       /\ writes' = Append(writes, [op |-> "saveAssistantMessage",
                                    stage |-> "delay",
                                    called |-> currentSessionId,
                                    content |-> content])
       /\ UNCHANGED <<storageVars, managerVars, last, peer, faults>>

\* the timer of a waiting saveAssistantMessage fires: the message is built
\* from the session that is current now and saved
DelayEnds(i) ==
    /\ i \in 1..Len(writes)
    /\ writes[i].stage = "delay"
    /\ \E delay \in 1..MaxClock :
           ManagerSaveBody(writes[i].op, "assistant", writes[i].content, delay)
    /\ writes' = Splice(writes, i)
    /\ UNCHANGED <<peer, faults>>

NextDelay ==
    \/ ManagerInitialize /\ UNCHANGED envVars
    \/ \E sessionId \in SessionIds : SetCurrentSession(sessionId) /\ UNCHANGED envVars
    \/ \E title \in Titles : StartSession("s2", title) /\ UNCHANGED envVars
    \/ \E i \in 1..MaxPending : ThenCallback(i) /\ UNCHANGED envVars
    \/ \E content \in ManagerContents : BeginAssistant(content)
    \/ \E i \in 1..MaxWrites : DelayEnds(i)
    \/ \E sessionId \in SessionIds : ManagerDeleteSession(sessionId) /\ UNCHANGED envVars
    \/ ManagerClear /\ UNCHANGED envVars

SpecDelay == Init /\ [][NextDelay]_vars

---------------------------------------------------------------------------
(* Overlapping saveMessage calls on one LocalStorage instance, over both
   sessions and over given and generated ids. *)

OverlapMessages ==
    {m \in Messages : /\ m.role = "user" /\ m.content = "hi" /\ m.metadata = NoMeta
                      /\ m.timestamp = 2}

NextOverlap ==
    \/ ~ready /\ Initialize /\ UNCHANGED <<managerVars, envVars>>
    \/ Tick /\ UNCHANGED <<managerVars, envVars>>
    \/ \E message \in OverlapMessages : BeginSave(message)
    \/ \E i \in 1..Len(writes) : SaveToFileStarts(i)
    \/ \E i \in 1..Len(writes) : WriteLands(i)

SpecOverlap == Init /\ [][NextOverlap]_vars

---------------------------------------------------------------------------
(* DynamoDBStorage.deleteSession against a table whose DeleteCommands can
   fail: the rows of the session's messages are deleted one awaited command
   after the other, then the row of the session; a command that rejects
   ends the call with its error. *)

RemoteFailed == "remote delete failed"

\* a deleteSession whose failure undoes what it had deleted
RowsRolledBack(messages, fail) == <<>>

\* the messages whose rows are gone when the DeleteCommand number `fail`
\* rejects: the ones the loop had reached before
RowsDeletedBefore(messages, fail) == SubSeq(messages, 1, fail - 1)

DynamoDeleteSessionFailing(tbl, sessionId, fail) ==
    DynamoDeleteRows(
        tbl,
        RowsDeletedBefore(DynamoGetMessages(tbl, BySession(sessionId)).messages, fail),
        sessionId)

\* deleteSession(sessionId); fail = 0: every command succeeds, fail = k: the
\* k-th DeleteCommand rejects (the one after the last message row is the
\* session's)
DeleteSessionRemote(sessionId, fail) ==
    \/ NotReady("deleteSession")
    \/ /\ ready /\ ~IsBlob
       /\ fail <= Len(DynamoGetMessages(table, BySession(sessionId)).messages) + 1
       /\ IF fail = 0
          THEN /\ table' = DynamoDeleteSession(table, sessionId)
               /\ last' = [op |-> "deleteSession", err |-> NoError, id |-> sessionId,
                            deleted |-> Len(DynamoGetMessages(
                                            table, BySession(sessionId)).messages)]
          ELSE /\ table' = DynamoDeleteSessionFailing(table, sessionId, fail)
               /\ last' = [op |-> "deleteSession", err |-> RemoteFailed,
                            id |-> sessionId, deleted |-> fail - 1]
       /\ UNCHANGED <<kind, ready, data, durable, now, nextUuid>>

NextRemote ==
    \/ Initialize /\ UNCHANGED <<managerVars, envVars>>
    \/ Tick /\ UNCHANGED <<managerVars, envVars>>
    \/ \E message \in OverlapMessages : SaveMessage(message)
            /\ UNCHANGED <<managerVars, envVars>>
    \/ \E sessionId \in SessionIds, fail \in 0..(Cardinality(MessageIds) + MaxUuid + 1) :
            DeleteSessionRemote(sessionId, fail) /\ UNCHANGED <<managerVars, envVars>>

SpecRemote == InitDynamo /\ [][NextRemote]_vars

---------------------------------------------------------------------------
(* The mutating operations of LocalStorage alone, sequentially awaited,
   from an empty store. *)

NextMutate ==
    \/ Initialize /\ UNCHANGED <<managerVars, envVars>>
    \/ \E message \in SaveInputs : SaveMessage(message) /\ UNCHANGED <<managerVars, envVars>>
    \/ \E messages \in Batches : SaveMessages(messages) /\ UNCHANGED <<managerVars, envVars>>
    \/ \E sessionId \in SessionIds, updates \in TitleUpdates :
            UpdateSession(sessionId, updates) /\ UNCHANGED <<managerVars, envVars>>
    \/ \E messageId \in StoredIds : DeleteMessage(messageId) /\ UNCHANGED <<managerVars, envVars>>
    \/ \E sessionId \in SessionIds : DeleteSession(sessionId) /\ UNCHANGED <<managerVars, envVars>>
    \/ Clear /\ UNCHANGED <<managerVars, envVars>>

SpecMutate == Init /\ [][NextMutate]_vars

---------------------------------------------------------------------------
(* Properties *)

\* the six fields of a message as a caller reads them
MessageView(m) ==
    [id |-> m.id, sessionId |-> m.sessionId, role |-> m.role, content |-> m.content,
     timestamp |-> m.timestamp, metadata |-> MetadataOf(m)]

Range(seq) == {seq[i] : i \in 1..Len(seq)}
Views(seq) == {MessageView(seq[i]) : i \in 1..Len(seq)}

\* the messages the backend holds
Stored ==
    IF IsBlob THEN Views(data.messages)
    ELSE {MessageOfItem(i) : i \in MessageRows(table)}

Ascending(seq) ==
    \A i \in 1..Len(seq), j \in 1..Len(seq) :
        i < j => seq[i].timestamp <= seq[j].timestamp

Called(op) == last.op = op /\ last.err = NoError

\* C1: (file / object backends) after every completed call each session
\* record's messageCount equals the number of stored messages whose
\* sessionId is that session's id.
C1_CountMatchesMessages ==
    IsBlob =>
        \A i \in 1..Len(data.sessions) :
            data.sessions[i].messageCount
                = Cardinality({m \in Stored : m.sessionId = data.sessions[i].id})

\* the message a successful saveMessage call stored: its argument under the
\* id it carried or was assigned
SavedMessage(call) == MessageView([call.arg EXCEPT !.id = call.id])

\* does the call replace or remove the stored message `m`?
Touches(call, m) ==
    \/ call.op = "saveMessage" /\ call.id = m.id
    \/ call.op = "saveMessages" /\ \E i \in 1..Len(call.arg) : call.arg[i].id = m.id
    \/ call.op = "deleteMessage" /\ call.id = m.id
    \/ call.op = "deleteSession" /\ call.id = m.sessionId
    \/ call.op = "clear"

C2_Saved ==
    (IsBlob /\ Called("saveMessage")) =>
        /\ last.id \notin {Undefined, ""}
        /\ last.arg.id # Undefined => last.id = last.arg.id
        /\ FindMessage(data.messages, last.id) # Null
        /\ MessageView(FindMessage(data.messages, last.id)) = SavedMessage(last)

C2_Kept ==
    (IsBlob /\ last'.err = NoError /\ data'.messages # data.messages) =>
        \A id \in StoredIds :
            LET m == FindMessage(data.messages, id)
            IN  (m # Null /\ ~Touches(last', m)) =>
                    /\ FindMessage(data'.messages, id) # Null
                    /\ MessageView(FindMessage(data'.messages, id)) = MessageView(m)

\* C2: (file / object backends) getMessage(m.id) returns the message last
\* saved under that id, equal in its six fields, until a call deletes or
\* re-saves it; a message saved without an id is stored under the id
\* saveMessage assigned.
C2_RoundTrip == [][C2_Saved' /\ C2_Kept]_vars

\* a message saved without an id is retrievable next to an earlier one
C2_Witness ==
    /\ IsBlob /\ Called("saveMessage")
    /\ last.arg.id = Undefined
    /\ Len(data.messages) >= 2
    /\ MessageView(FindMessage(data.messages, last.id)) = SavedMessage(last)

\* C3: (wide-column backend) after a successful saveMessage, getMessage of
\* the saved id returns the saved message.
C3_DynamoRoundTrip ==
    (kind = "dynamodb" /\ Called("saveMessage")) =>
        /\ DynamoGetMessage(table, last.id) # Null
        /\ DynamoGetMessage(table, last.id) = SavedMessage(last)

\* C4: getMessages({sessionId: s}) for a non-empty s returns exactly the
\* stored messages of session s, ascending by timestamp, with total their
\* number; getMessages({}) has total = number of all stored messages.
C4_SessionQuery ==
    Called("getMessages") =>
        LET o == last.options
            r == last.ret
            mine == {m \in Stored : m.sessionId = o.sessionId}
        IN  /\ (o = BySession(o.sessionId) /\ o.sessionId \in SessionIds) =>
                    /\ Views(r.messages) = mine
                    /\ Len(r.messages) = Cardinality(mine)
                    /\ r.total = Cardinality(mine)
                    /\ Ascending(r.messages)
            /\ o = BySession(Undefined) => r.total = Cardinality(Stored)

\* a session query whose result is a proper part of the store, re-ordered
C4_Witness ==
    /\ IsBlob /\ Called("getMessages")
    /\ last.options = BySession("s1")
    /\ last.ret.total = 2
    /\ Len(data.messages) = 3
    /\ last.ret.messages[1].timestamp < last.ret.messages[2].timestamp
    /\ last.ret.messages[1].id = "u3"

\* a message satisfies every filter that is present
Matches(m, o) ==
    /\ o.sessionId \notin {Undefined, ""} => m.sessionId = o.sessionId
    /\ o.role # Undefined => m.role = o.role
    /\ o.startDate # NoNum => m.timestamp >= o.startDate
    /\ o.endDate # NoNum => m.timestamp <= o.endDate

\* C5: the filters of getMessages are conjunctive with inclusive date
\* bounds: the matching set is the stored messages that satisfy every
\* present filter, and the result is ascending by timestamp.
C5_Conjunctive ==
    Called("getMessages") =>
        LET o == last.options
            r == last.ret
            matching == {m \in Stored : Matches(m, o)}
        IN  /\ r.total = Cardinality(matching)
            /\ Views(r.messages) \subseteq matching
            /\ Ascending(r.messages)
            /\ (o.limit = NoNum /\ o.offset = NoNum) =>
                    /\ Views(r.messages) = matching
                    /\ Len(r.messages) = Cardinality(matching)

\* all four filters present, one message on both date bounds selected
C5_Witness ==
    /\ Called("getMessages")
    /\ last.options.sessionId = "s1" /\ last.options.role = "user"
    /\ last.options.startDate = 2 /\ last.options.endDate = 2
    /\ last.ret.total = 1
    /\ Cardinality(Stored) = 3

\* the filtered, timestamp-sorted list a query pages over
FullList(o) ==
    LET all == [o EXCEPT !.limit = NoNum, !.offset = NoNum]
    IN  IF IsBlob THEN GetMessagesData(data.messages, all).messages
        ELSE DynamoGetMessages(table, all).messages

OffsetOf(o) == IF o.offset = NoNum THEN 0 ELSE o.offset

\* C6: with limit L >= 0 and offset O >= 0 getMessages returns positions
\* O .. O+L-1 of the filtered sorted list, min(L, max(0, total - O))
\* messages; with limit omitted, all messages from position O on.
C6_Pagination ==
    Called("getMessages") =>
        LET o == last.options
            r == last.ret
            full == FullList(o)
            O == OffsetOf(o)
        IN  IF o.limit # NoNum
            THEN /\ Len(r.messages) = Min(o.limit, Max(0, Len(full) - O))
                 /\ r.messages = SubSeq(full, O + 1, Min(O + o.limit, Len(full)))
            ELSE r.messages = SubSeq(full, O + 1, Len(full))

\* C7: hasMore is true exactly when offset + limit < total, and false when
\* the limit is omitted.
C7_HasMore ==
    Called("getMessages") =>
        LET o == last.options
            r == last.ret
        IN  r.hasMore = (IF o.limit = NoNum THEN FALSE
                         ELSE OffsetOf(o) + o.limit < r.total)

\* the messages of a session and its record, as the backend holds them
MessagesOf(d, tbl, sessionId) ==
    IF IsBlob THEN Filter(d.messages, LAMBDA m : m.sessionId = sessionId)
    ELSE ItemsOf({i \in MessageRows(tbl) : i.sessionId = sessionId})

RecordOf(d, tbl, sessionId) ==
    IF IsBlob THEN FindSession(d.sessions, sessionId)
    ELSE DynamoGetSession(tbl, sessionId)

C8_Step ==
    (last'.op = "deleteSession" /\ last'.err = NoError) =>
        /\ MessagesOf(data', table', last'.id) = <<>>
        /\ RecordOf(data', table', last'.id) = Null
        /\ \A other \in SessionIds \ {last'.id} :
              /\ MessagesOf(data', table', other) = MessagesOf(data, table, other)
              /\ RecordOf(data', table', other) = RecordOf(data, table, other)

\* C8: after deleteSession(s) no stored message has sessionId s and
\* getSession(s) is null; the messages and records of the other sessions
\* are unchanged.
C8_DeleteSession == [][C8_Step]_vars

\* a session with messages was deleted next to another session with messages
C8_Witness ==
    /\ Called("deleteSession")
    /\ MessagesOf(data, table, last.id) = <<>>
    /\ \E other \in SessionIds \ {last.id} :
          /\ MessagesOf(data, table, other) # <<>>
          /\ RecordOf(data, table, other) # Null
    /\ nextUuid = 1

C9_Step ==
    (IsBlob /\ last'.op = "deleteMessage" /\ ready) =>
        LET old == FindMessage(data.messages, last'.id)
        IN  /\ last'.err = NoError
            /\ IF old # Null
               THEN /\ FindMessage(data'.messages, last'.id) = Null
                    /\ Len(data'.messages) = Len(data.messages) - 1
                    /\ Range(data'.messages) = Range(data.messages) \ {old}
                    /\ FindSession(data'.sessions, old.sessionId) # Null
                    /\ FindSession(data'.sessions, old.sessionId).messageCount
                          = Cardinality({m \in Range(data'.messages) :
                                            m.sessionId = old.sessionId})
                    /\ Len(data'.sessions) = Len(data.sessions)
               ELSE /\ data'.messages = data.messages
                    /\ data'.sessions = data.sessions
                    /\ durable' = durable

\* C9: (file / object backends) deleteMessage of a stored id removes exactly
\* that message and sets its session's messageCount to the number of its
\* remaining messages, the session record staying; for an id that is not
\* stored it completes without error and changes no message, no session
\* record and not the durable copy.
C9_DeleteMessage == [][C9_Step]_vars

\* the last message of a session was deleted and its record stays with count 0
C9_Witness ==
    /\ IsBlob /\ Called("deleteMessage") /\ last.found
    /\ Len(data.messages) = 1
    /\ \E i \in 1..Len(data.sessions) :
          /\ data.sessions[i].messageCount = 0
          /\ data.sessions[i].id # data.messages[1].sessionId

\* C10: (wide-column backend) after a completed deleteMessage(id) the
\* message row is gone: no message row with that id is left in the table.
C10_DynamoDelete ==
    (kind = "dynamodb" /\ Called("deleteMessage")) =>
        \A i \in MessageRows(table) : i.id # last.id

\* C11: (wide-column backend) a saveMessage on an initialized backend
\* completes without error, also for a sessionId with no session record,
\* and afterwards that session's record exists with messageCount equal to
\* the number of message rows of the session.
C11_DynamoImplicitSession ==
    (kind = "dynamodb" /\ ready /\ last.op = "saveMessage") =>
        /\ last.err = NoError
        /\ DynamoGetSession(table, last.arg.sessionId) # Null
        /\ DynamoGetSession(table, last.arg.sessionId).messageCount
              = Cardinality({i \in MessageRows(table) :
                                i.sessionId = last.arg.sessionId})

\* the session ids a manager may hold
StartedIds == SessionIds \cup {UuidPool[i] : i \in 1..Len(UuidPool)}

\* C12: after startSession(id, title) on an initialized manager, for an id
\* with no session record and with no further call, a session record for
\* id with messageCount 0 and the given title eventually exists (on each
\* backend).
C12_StartCreatesSession ==
    \A id \in StartedIds, title \in TitleArgs :
        (/\ last.op = "startSession" /\ last.err = NoError
         /\ last.id = id /\ last.title = title
         /\ RecordOf(data, table, id) = Null)
        ~> (/\ RecordOf(data, table, id) # Null
            /\ RecordOf(data, table, id).messageCount = 0
            /\ TitleOf(RecordOf(data, table, id)) = title)

\* the record of the updated session before and after an updateSession call
\* keeps every field but those in `changed`
KeepsFields(old, new, changed) ==
    \A k \in DOMAIN old \ changed : k \in DOMAIN new /\ new[k] = old[k]

C13_Step(stamp) ==
    (IsBlob /\ last'.op = "updateSession" /\ last'.err = NoError) =>
        LET old == FindSession(data.sessions, last'.id)
            new == FindSession(data'.sessions, last'.id)
            given == last'.updates
        IN  /\ new # Null
            /\ new.id = last'.id
            /\ \A k \in DOMAIN given : k \in DOMAIN new /\ new[k] = given[k]
            /\ old # Null => KeepsFields(old, new, DOMAIN given \cup stamp)
            /\ data'.messages = data.messages
            /\ \A other \in SessionIds \ {last'.id} :
                  FindSession(data'.sessions, other) = FindSession(data.sessions, other)

\* C13: (file / object backends) updateSession(id, fields) for an id with no
\* record creates a record with that id carrying the given fields; for an
\* id with a record it merges the given fields into the record, sets
\* updatedAt to the time of the call and keeps the other fields not given;
\* it adds and removes no message.
C13_UpdateSession == [][C13_Step({"updatedAt"})]_vars

\* C13 as stated: every field not given is kept, updatedAt among them
C13_KeepsAllFields == [][C13_Step({})]_vars

\* a title merged into the record of a session that has a message, later
\* than the record was created
C13_Witness ==
    /\ IsBlob /\ Called("updateSession")
    /\ last.updates = [title |-> "x"]
    /\ FindSession(data.sessions, last.id) # Null
    /\ TitleOf(FindSession(data.sessions, last.id)) = "x"
    /\ FindSession(data.sessions, last.id).messageCount = 1
    /\ FindSession(data.sessions, last.id).updatedAt
          > FindSession(data.sessions, last.id).createdAt
    /\ CountFor(data.messages, last.id) = 1

C14_Step ==
    (/\ kind = "dynamodb" /\ ready /\ last'.op = "updateSession"
     /\ DynamoGetSession(table, last'.id) = Null) =>
        /\ last'.err = SessionNotFound
        /\ table' = table

\* C14: (wide-column backend) updateSession(id, fields) for an id with no
\* session record fails with the 'Session ... not found' error and leaves
\* the table unchanged.
C14_DynamoUpdateMissing == [][C14_Step]_vars

\* the call failed on a table that holds rows of another session
C14_Witness ==
    /\ kind = "dynamodb"
    /\ last.op = "updateSession" /\ last.err = SessionNotFound
    /\ DynamoGetSession(table, last.id) = Null
    /\ \E other \in SessionIds \ {last.id} :
          /\ DynamoGetSession(table, other) # Null
          /\ \E i \in MessageRows(table) : i.sessionId = other

\* C15: (every backend) a call of an operation other than initialize made
\* before initialize has succeeded fails with the 'not initialized' error,
\* and the store is as it was constructed.
C15_NotInitialized ==
    (~ready /\ last.op \notin {"new", "initialize"}) =>
        /\ last.err = NotInitialized
        /\ data = EmptyData(0)
        /\ durable = NoFile
        /\ MessageRows(table) = {}

SaveOps == {"saveUserMessage", "saveAssistantMessage", "saveSystemMessage"}

C16_Step ==
    (/\ ~HasActiveSession(currentSessionId)
     /\ last'.op \in SaveOps \cup {"getCurrentSessionHistory"}) =>
        /\ last'.err = NoActiveSession
        /\ Stored' = Stored
        /\ data'.sessions = data.sessions
        /\ table' = table
        /\ durable' = durable

\* C16: with no current session set, saveUserMessage, saveAssistantMessage,
\* saveSystemMessage and getCurrentSessionHistory fail with the 'No active
\* session' error; no message is stored and no session record is created.
C16_NoActiveSession == [][C16_Step]_vars

\* a save refused on an initialized manager whose store holds a message
C16_Witness ==
    /\ managerReady
    /\ last.op = "saveSystemMessage" /\ last.err = NoActiveSession
    /\ currentSessionId = NoSession
    /\ Stored # {}

\* the role each save operation gives its message
RoleOf(op) ==
    CASE op = "saveUserMessage" -> "user"
      [] op = "saveAssistantMessage" -> "assistant"
      [] op = "saveSystemMessage" -> "system"

\* what getMessage(id) and getSessionHistory(sessionId) return on a store
GetMessageOn(d, tbl, messageId) ==
    IF IsBlob THEN FindMessage(d.messages, messageId)
    ELSE DynamoGetMessage(tbl, messageId)

HistoryOn(d, tbl, sessionId) ==
    IF IsBlob THEN GetMessagesData(d.messages, BySession(sessionId)).messages
    ELSE DynamoGetMessages(tbl, BySession(sessionId)).messages

\* the step is a save call that passed the guard (it drew an identifier)
SaveCall == last'.op \in SaveOps /\ nextUuid' = nextUuid + 1

C17_Step ==
    (managerReady /\ HasActiveSession(currentSessionId) /\ SaveCall) =>
        LET got == GetMessageOn(data', table', last'.id)
        IN  /\ last'.err = NoError
            /\ got # Null
            /\ got.id = last'.id
            /\ got.role = RoleOf(last'.op)
            /\ got.content = last'.content
            /\ got.sessionId = currentSessionId
            /\ Len(HistoryOn(data', table', currentSessionId))
                  = Len(HistoryOn(data, table, currentSessionId)) + 1

\* C17: with a current session c on an initialized manager, each of
\* saveUserMessage, saveAssistantMessage and saveSystemMessage returns an
\* id for which getMessage(id) is a message of the operation's role with
\* the given content and sessionId c, and the history of c grows by
\* exactly one message.
C17_ManagerSave == [][C17_Step]_vars

\* the position of the message with the given id in a history, 0 if absent
PositionOf(history, messageId) == FindIndex(history, LAMBDA m : m.id = messageId)

C18_Step ==
    (/\ managerReady
     /\ last.op = "saveUserMessage" /\ last.err # NoActiveSession
     /\ SaveCall /\ last'.op = "saveAssistantMessage"
     /\ last'.arg.sessionId = last.arg.sessionId) =>
        LET before == HistoryOn(data, table, last.arg.sessionId)
            history == HistoryOn(data', table', last.arg.sessionId)
        IN  /\ Len(history) = Len(before) + 1
            /\ PositionOf(history, last.id) >= 1
            /\ PositionOf(history, last'.id) > PositionOf(history, last.id)
            /\ Ascending(history)

\* C18: an assistant message saved by saveAssistantMessage right after a
\* saveUserMessage in the same session comes after the user message in
\* getSessionHistory of that session, which is ascending by timestamp and
\* holds one message more than before: two messages, user then assistant,
\* for a session started empty.  (On the wide-column backend also when the
\* save calls throw after they have put the message row.)
C18_UserBeforeAssistant == [][C18_Step]_vars

\* start s1, save a user message, save an assistant message: the history
\* of s1 is the two messages, the user message first
C18_Witness ==
    /\ last.op = "saveAssistantMessage" /\ last.err = NoError
    /\ currentSessionId = "s1"
    /\ Len(HistoryOn(data, table, "s1")) = 2
    /\ HistoryOn(data, table, "s1")[1].role = "user"
    /\ HistoryOn(data, table, "s1")[2].role = "assistant"
    /\ HistoryOn(data, table, "s1")[2].id = last.id

C19_Step ==
    /\ last'.op = "deleteSession" =>
          currentSessionId' = IF last'.err = NoError /\ currentSessionId = last'.id
                              THEN NoSession ELSE currentSessionId
    /\ (last'.op = "clear" /\ last'.err = NoError) => currentSessionId' = NoSession

\* C19: manager deleteSession(id) sets the current-session pointer to null
\* when the pointer equalled id and leaves it unchanged otherwise, and also
\* when the backend delete fails; after a successful manager clear() the
\* pointer is null.
C19_Pointer == [][C19_Step]_vars

\* the session started last was deleted and the pointer is null, while the
\* other session keeps its messages
C19_Witness ==
    /\ Called("deleteSession")
    /\ last.id = "s1"
    /\ currentSessionId = NoSession
    /\ \E i \in 1..Len(pending) : pending[i].id = "s1"
    /\ HistoryOn(data, table, "s2") # <<>>

\* the step is a startSession call
StartCall ==
    last'.op = "startSession" /\ (last' # last \/ Len(pending') > Len(pending))

C20_Step ==
    StartCall =>
        IF managerReady
        THEN /\ last'.err = NoError
             /\ currentSessionId' = last'.id
             /\ TruthyStr(last'.id)
             /\ TruthyStr(last'.arg) => last'.id = last'.arg
             /\ ~TruthyStr(last'.arg) =>
                    /\ RecordOf(data, table, last'.id) = Null
                    /\ HistoryOn(data, table, last'.id) = <<>>
                    /\ last'.id # currentSessionId
        ELSE /\ last'.err = ManagerNotInitialized
             /\ currentSessionId' = currentSessionId

\* C20: on an initialized manager startSession(id) returns id and makes it
\* the current session; with the id omitted (or empty) it returns a
\* generated identifier that no session record, no stored message and not
\* the previous pointer carries, and makes it current.  On a manager that
\* is not initialized startSession throws and leaves the pointer unchanged.
C20_StartSession == [][C20_Step]_vars

\* a session started without an id next to the record of another session
C20_Witness ==
    /\ last.op = "startSession" /\ last.err = NoError
    /\ last.arg = Undefined
    /\ currentSessionId = last.id
    /\ currentSessionId \notin SessionIds
    /\ RecordOf(data, table, "s1") # Null
    /\ HistoryOn(data, table, "s1") # <<>>

\* C21: saveContext never passes an error on to its caller: it completes
\* normally when there is no active session, when the backend's save fails
\* and when its arguments are null, whatever the input and the output are.
C21_SaveContextCatches ==
    last.op = "saveContext" => last.err = NoError

\* a saveContext that completed although the write of its assistant message
\* failed after the user message had been saved
C21_Witness ==
    /\ last.op = "saveContext" /\ last.err = NoError
    /\ last.first = NoError
    /\ last.caught = WriteFailed
    /\ Len(data.messages) >= 2

\* the ids of the session records the backend holds
SessionRecords ==
    IF IsBlob THEN {data.sessions[i].id : i \in 1..Len(data.sessions)}
    ELSE {i.id : i \in {j \in table : j.type = "session"}}

\* C22: getStats returns totalSessions equal to the number of session
\* records and totalMessages equal to the number of stored messages;
\* oldestMessage and newestMessage are the least and the greatest stored
\* timestamp, or null when no message is stored; averageMessagesPerSession
\* is 0 whenever there is no session record.  On an empty store the result
\* is {0, 0, null, null, 0}.
C22_GetStats ==
    Called("getStats") =>
        LET ret == last.ret
            stamps == {m.timestamp : m \in Stored}
        IN  /\ ret.totalSessions = Cardinality(SessionRecords)
            /\ ret.totalMessages = Cardinality(Stored)
            /\ IF Stored = {}
               THEN ret.oldestMessage = NullDate /\ ret.newestMessage = NullDate
               ELSE /\ ret.oldestMessage \in stamps /\ ret.newestMessage \in stamps
                    /\ \A t \in stamps : ret.oldestMessage <= t /\ t <= ret.newestMessage
            /\ SessionRecords = {} => ret.averageMessagesPerSession.num = 0
            /\ (SessionRecords = {} /\ Stored = {}) =>
                    ret = [totalSessions |-> 0, totalMessages |-> 0,
                           oldestMessage |-> NullDate, newestMessage |-> NullDate,
                           averageMessagesPerSession |-> [num |-> 0, den |-> 1]]

\* statistics over two messages stored at different instants
C22_Witness ==
    /\ Called("getStats")
    /\ last.ret.totalMessages = 2
    /\ last.ret.oldestMessage < last.ret.newestMessage

\* C23: clear() on an initialized backend succeeds and leaves no message and
\* no session record, whatever the store held before; this holds of a first
\* clear() and of one that follows another.
C23_Clear ==
    (ready /\ last.op = "clear") =>
        /\ last.err = NoError
        /\ Stored = {}
        /\ SessionRecords = {}
        /\ IsBlob => (durable = Stringify(data) /\ data.messages = <<>>
                        /\ data.sessions = <<>>)

\* a store emptied by clear() after a message had been saved under a
\* generated id
C23_Witness ==
    /\ Called("clear")
    /\ ready
    /\ nextUuid >= 1
    /\ Stored = {}

\* the ids of the stored messages
StoredMessageIds == {m.id : m \in Stored}

C30_Step ==
    /\ (ready /\ last'.op = "getMessage" /\ last'.id \notin StoredMessageIds) =>
            /\ last'.err = NoError
            /\ last'.ret = Null
            /\ UNCHANGED <<ready, data, durable, table>>
    /\ (ready /\ last'.op = "getSession" /\ last'.id \notin SessionRecords) =>
            /\ last'.err = NoError
            /\ last'.ret = Null
            /\ UNCHANGED <<ready, data, durable, table>>

\* C30: on an initialized backend getMessage(id) and getSession(id) for an
\* id that is not stored return null without an error and change no state.
C30_NotFound == [][C30_Step]_vars

\* getMessage answered null for an id that is not stored while another
\* message is
C30_Witness ==
    /\ Called("getMessage")
    /\ last.ret = Null
    /\ last.id \notin StoredMessageIds
    /\ Stored # {}
    /\ IsBlob

\* the fields of a session record as a caller reads them
SessionView(x) ==
    [id |-> x.id, title |-> TitleOf(x), createdAt |-> x.createdAt,
     updatedAt |-> x.updatedAt, messageCount |-> x.messageCount,
     metadata |-> MetadataOf(x)]

\* what a fresh LocalStorage / S3Storage instance holds after initialize()
\* on the blob `file`
FreshLoad(file) == IF file = NoFile THEN EmptyData(0) ELSE Revive(file)

\* two structures hold the same messages and the same session records
SameContent(a, b) ==
    /\ [i \in 1..Len(a.messages) |-> MessageView(a.messages[i])]
         = [i \in 1..Len(b.messages) |-> MessageView(b.messages[i])]
    /\ [i \in 1..Len(a.sessions) |-> SessionView(a.sessions[i])]
         = [i \in 1..Len(b.sessions) |-> SessionView(b.sessions[i])]

MutatingOps == {"saveMessage", "updateSession", "deleteMessage", "deleteSession", "clear"}

\* the call reached saveToFile: every mutating call but a deleteMessage of an
\* id that is not stored
Wrote(call) == ~(call.op = "deleteMessage" /\ ~call.found)

\* C24: (file-backed backend) after every successfully completed,
\* sequentially awaited mutating operation that writes the file (saveMessage,
\* updateSession, deleteSession, clear, and deleteMessage of a stored id) the
\* file equals the in-memory state: a fresh instance initialized on it
\* holds the same messages and session records.
C24_FileMirrorsMemory ==
    (IsBlob /\ ready /\ last.op \in MutatingOps /\ last.err = NoError /\ Wrote(last)) =>
        /\ durable = Stringify(data)
        /\ SameContent(FreshLoad(durable), data)

\* C24 as stated: the same after every successfully completed mutating
\* operation, a deleteMessage of an id that is not stored included.
C24_EveryMutatingOperation ==
    (IsBlob /\ ready /\ last.op \in MutatingOps /\ last.err = NoError) =>
        SameContent(FreshLoad(durable), data)

\* the file back in step with memory by an updateSession that followed a
\* failed write, with a message in the store
C24_Witness ==
    /\ IsBlob /\ Called("updateSession")
    /\ faults = 1
    /\ data.messages # <<>>
    /\ SameContent(FreshLoad(durable), data)

\* a saveMessage whose write failed: the message and its session's count
\* are in memory, the blob is as it was
C25_Failed ==
    (IsBlob /\ last'.op = "saveMessage" /\ last'.err = WriteFailed) =>
        LET m == FindMessage(data'.messages, last'.id)
            record == FindSession(data'.sessions, last'.arg.sessionId)
        IN  /\ m # Null
            /\ MessageView(m) = SavedMessage(last')
            /\ record # Null
            /\ record.messageCount = CountFor(data'.messages, last'.arg.sessionId)
            /\ durable' = durable

\* a getMessage that follows it returns the message
C25_ReadBack ==
    (/\ IsBlob /\ last.op = "saveMessage" /\ last.err = WriteFailed
     /\ last'.op = "getMessage" /\ last'.id = last.id) =>
        /\ last'.err = NoError
        /\ last'.ret # Null
        /\ MessageView(last'.ret) = SavedMessage(last)

\* the mutating call that follows it, when it succeeds (and, with
\* `writing`, reaches saveToFile), writes the whole in-memory state, that
\* message included if the call did not remove it
C25_NextWrite(writing) ==
    (/\ IsBlob /\ last.op = "saveMessage" /\ last.err = WriteFailed
     /\ last'.op \in MutatingOps /\ last'.err = NoError
     /\ writing => Wrote(last')) =>
        /\ durable' = Stringify(data')
        /\ FindMessage(data'.messages, last.id) # Null =>
                /\ FindMessage(FreshLoad(durable').messages, last.id) # Null
                /\ MessageView(FindMessage(FreshLoad(durable').messages, last.id))
                     = MessageView(FindMessage(data'.messages, last.id))

\* C25: (file / object backends) when the write at the end of saveMessage
\* fails, the error reaches the caller, the in-memory state keeps the
\* message and the updated session record, later reads return them, and the
\* blob does not change; the next successful mutating operation that writes
\* (any but a deleteMessage of an id that is not stored) writes the whole
\* in-memory state, that message included.
C25_WriteFailure == [][C25_Failed /\ C25_ReadBack /\ C25_NextWrite(TRUE)]_vars

\* C25 as stated: the next successful mutating operation, whichever it is,
\* writes the whole in-memory state.
C25_AnyNextOperation == [][C25_Failed /\ C25_ReadBack /\ C25_NextWrite(FALSE)]_vars

\* a failed saveMessage that left its message in memory and not in the file
C25_Witness ==
    /\ IsBlob
    /\ last.op = "saveMessage" /\ last.err = WriteFailed
    /\ durable # NoFile
    /\ FindMessage(data.messages, last.id) # Null
    /\ FindMessage(Revive(durable).messages, last.id) = Null

\* the elements of a list under the ids saveMessage gives them
RECURSIVE AssignAll(_, _)
AssignAll(messages, uuid) ==
    IF messages = <<>> THEN <<>>
    ELSE <<AssignId(Head(messages), uuid)>>
            \o AssignAll(Tail(messages), UuidAfter(Head(messages), uuid))

\* the messages a restart would find
Durable(file, tbl) ==
    IF IsBlob THEN Views(FreshLoad(file).messages)
    ELSE {MessageOfItem(i) : i \in MessageRows(tbl)}

C26_Step ==
    (last'.op = "saveMessages" /\ last'.err \notin {NoError, NotInitialized}) =>
        LET k == last'.failed
            list == AssignAll(last'.arg, nextUuid)
            before == {m.id : m \in Stored} \cup {m.id : m \in Durable(durable, table)}
        IN  /\ k \in 1..Len(list)
            /\ nextUuid' = nextUuid + NeedIds(SubSeq(last'.arg, 1, k))
            /\ \A j \in 1..(k - 1) :
                  (\A i \in (j + 1)..k : list[i].id # list[j].id) =>
                        MessageView(list[j]) \in Durable(durable', table')
            /\ \A j \in (k + 1)..Len(list) :
                  (/\ TruthyStr(last'.arg[j].id)
                   /\ last'.arg[j].id \notin before
                   /\ \A i \in 1..k : list[i].id # last'.arg[j].id) =>
                        /\ last'.arg[j].id \notin {m.id : m \in Stored'}
                        /\ last'.arg[j].id \notin {m.id : m \in Durable(durable', table')}
            /\ Cardinality(Stored') <= Cardinality(Stored) + k

\* C26: saveMessages applies saveMessage to the elements in list order and
\* is not atomic: when the save of the k-th element fails the error reaches
\* the caller, the elements before it are persisted durably and the
\* elements after it are stored neither in memory nor durably.
C26_SaveMessagesPartial == [][C26_Step]_vars

\* a list of two whose second save failed, with the first element in the file
C26_Witness ==
    /\ IsBlob
    /\ last.op = "saveMessages" /\ last.err = WriteFailed
    /\ last.failed = 2
    /\ Cardinality(Durable(durable, table)) = 1
    /\ Cardinality(Stored) = 2


\* the saves of the run that have resolved
Settled == {j \in 1..Len(writes) : writes[j].stage = "done"}

\* save j put a message under an id none of the saves before it used, and
\* was called after the write i had serialized this.data
BeganAfterSnapshot(j, i) ==
    /\ j > writes[i].snap
    /\ \A k \in 1..(j - 1) : writes[k].id # writes[j].id

\* the write of save i lands: the blob becomes what this.data was when
\* save i serialized it, and of every resolved save that was called after
\* that the blob has neither the message nor the session count
C27_Step ==
    \A i \in 1..Len(writes) :
        (writes[i].stage = "writing" /\ writes'[i].stage = "done") =>
            /\ last'.err = NoError
            /\ durable' = writes[i].content
            /\ \A j \in Settled :
                  BeganAfterSnapshot(j, i) =>
                    LET file == FreshLoad(durable')
                        sid == writes[j].sessionId
                    IN  /\ FindMessage(data'.messages, writes[j].id) # Null
                        /\ FindMessage(file.messages, writes[j].id) = Null
                        /\ CountFor(file.messages, sid) < CountFor(data'.messages, sid)
                        /\ FindSession(file.sessions, sid) # Null =>
                              FindSession(file.sessions, sid).messageCount
                                < FindSession(data'.sessions, sid).messageCount

\* C27: (one file / object backend instance) two saveMessage calls of which
\* the second starts before the first has finished its write are subject to
\* a lost update: when the write of the first lands after the write of the
\* second, both complete without error and the message and the session
\* count of the second are missing from the durable copy.
C27_LostUpdate == [][C27_Step]_vars

\* both saves resolved without error and the blob lacks the message of one
C27_Witness ==
    /\ IsBlob
    /\ Len(writes) = 2
    /\ Settled = {1, 2}
    /\ last.err = NoError
    /\ \E j \in Settled :
          /\ FindMessage(data.messages, writes[j].id) # Null
          /\ FindMessage(FreshLoad(durable).messages, writes[j].id) = Null

\* the ids of the messages of a structure
IdsOf(d) == {d.messages[i].id : i \in 1..Len(d.messages)}

\* the call that just completed was made on the second instance
ByPeer(call) == "by" \in DOMAIN call /\ call.by = "peer"

\* a saveMessage of the second instance succeeds, writes that instance's
\* memory as the blob and leaves the first instance as it was: a message
\* the blob held that the second instance never loaded or saved is gone
C28_Step ==
    (last' # last /\ ByPeer(last') /\ last'.op = "saveMessage") =>
        /\ last'.err = NoError
        /\ data' = data
        /\ durable' = Stringify(peer'.data)
        /\ last'.id \in IdsOf(FreshLoad(durable'))
        /\ \A id \in IdsOf(FreshLoad(durable)) :
              (id \notin IdsOf(peer.data) /\ id # last'.id) =>
                    id \notin IdsOf(FreshLoad(durable'))

\* C28: two instances initialized on the same file (or object) race
\* without detection: when both have loaded the same content and instance
\* A then saves message a and instance B afterwards saves message b, both
\* saves succeed without error and the durable copy ends up without a.
C28_PeersRace == [][C28_Step]_vars

\* the second instance has saved b after the first saved a: both in their
\* instance's memory, the blob with b and without a
C28_Witness ==
    /\ ready /\ peer.ready
    /\ ByPeer(last) /\ Called("saveMessage")
    /\ last.id \in IdsOf(FreshLoad(durable))
    /\ \E a \in IdsOf(data) :
          /\ a # last.id
          /\ a \notin IdsOf(peer.data)
          /\ a \notin IdsOf(FreshLoad(durable))

\* isReady() in a state: false while no initialize() has succeeded, true
\* once one has; an initialize() that failed reports a descriptive error;
\* every other call on a backend that is not ready fails as not
\* initialized; the manager is ready only over a ready backend
C29_State ==
    /\ (last.op = "new") => (~ready /\ ~ManagerIsReady)
    /\ (last.op = "initialize" /\ last.err = NoError) => ready
    /\ (last.op = "initialize" /\ last.err # NoError) => last.err = InitializeFailed
    /\ (~ready /\ last.op \notin {"new", "initialize"}) => last.err = NotInitialized
    /\ managerReady => ready

\* isReady() over a step: it becomes true only by an initialize() that
\* succeeded, a failed initialize() leaves it and the manager's flag as they
\* were, and it never becomes false again
C29_Step ==
    /\ (ready' /\ ~ready) => (last'.op = "initialize" /\ last'.err = NoError)
    /\ (managerReady' /\ ~managerReady) =>
            (last'.op = "initialize" /\ last'.err = NoError)
    /\ (last'.op = "initialize" /\ last'.err = InitializeFailed /\ last' # last) =>
            (ready' = ready /\ managerReady' = managerReady)
    /\ ready => ready'
    /\ managerReady => managerReady'

\* C29: a backend's isReady() is false before any initialize() call and
\* true after one has completed successfully; when initialize() fails it
\* throws a descriptive error, isReady() stays false and every later
\* operation still fails as not initialized.  The manager's isReady() is
\* true only after its own initialize() succeeded, and a backend
\* initialization error propagates out of the manager's initialize().
C29_Readiness == []C29_State /\ [][C29_Step]_vars

\* the session records the backend holds, as a caller reads them
SessionViews ==
    IF IsBlob THEN {SessionView(data.sessions[i]) : i \in 1..Len(data.sessions)}
    ELSE {SessionView(SessionOfItem(i)) : i \in {j \in table : j.type = "session"}}

\* the session a successful saveMessage / updateSession touched
TouchedBy(call) == IF call.op = "saveMessage" THEN call.arg.sessionId ELSE call.id

\* getSessions returns every record once, by updatedAt descending
C31_Sorted ==
    (ready /\ last'.op = "getSessions") =>
        LET ret == last'.ret
        IN  /\ last'.err = NoError
            /\ {SessionView(ret[i]) : i \in 1..Len(ret)} = SessionViews
            /\ Len(ret) = Cardinality(SessionViews)
            /\ \A i \in 1..(Len(ret) - 1) : ret[i].updatedAt >= ret[i + 1].updatedAt
            /\ UNCHANGED <<data, durable, table>>

\* where the session touched by the call just before stands in the result:
\* at the first place (`first`), or after no session but ones that carry
\* the same updatedAt
C31_Touched(first) ==
    (/\ ready /\ last'.op = "getSessions"
     /\ last.op \in {"saveMessage", "updateSession"} /\ last.err = NoError) =>
        LET ret == last'.ret
        IN  \E i \in 1..Len(ret) :
                /\ ret[i].id = TouchedBy(last)
                /\ \A j \in 1..(i - 1) : ret[j].updatedAt = ret[i].updatedAt
                /\ first => i = 1

\* C31: getSessions() returns every session record exactly once, ordered by
\* updatedAt descending, so that the session touched by the most recent
\* saveMessage or updateSession comes before every session whose updatedAt
\* is older (sessions touched at the same instant keep their stored order).
C31_GetSessions == [][C31_Sorted /\ C31_Touched(FALSE)]_vars

\* C31 as stated: the session touched by the most recent saveMessage or
\* updateSession comes first.
C31_MostRecentFirst == [][C31_Sorted /\ C31_Touched(TRUE)]_vars

\* the record stored first returned second, behind a session touched later
C31_Witness ==
    /\ IsBlob /\ Called("getSessions")
    /\ Len(last.ret) = 2
    /\ last.ret[1].updatedAt > last.ret[2].updatedAt
    /\ data.sessions[1].id = last.ret[2].id

\* the promise chain i of a startSession(id) that found no record for id is
\* still to run its callback when `call` (made right after startSession, for
\* that id) has completed, and runs it now as the last pending work
ChainRunsAfter(i, call) ==
    /\ IsBlob
    /\ pending[i].stage = "then" /\ ~pending[i].found
    /\ last.op = call /\ last.err = NoError
    /\ pending' = Splice(pending, i)
    /\ pending' = <<>>

C32_Step ==
    \A i \in 1..Len(pending) :
        (/\ ChainRunsAfter(i, "saveUserMessage")
         /\ last.arg.sessionId = pending[i].id
         /\ CountFor(data.messages, pending[i].id) = 1) =>
            LET record == FindSession(data'.sessions, pending[i].id)
            IN  /\ record # Null
                /\ record.messageCount = 1

\* C32: (file-backed backend) startSession(id) for an id with no session
\* record, followed without a yield by an awaited saveUserMessage: once the
\* pending work has finished, getSession(id).messageCount is 1.
C32_StartThenSave == [][C32_Step]_vars

C33_Step ==
    \A i \in 1..Len(pending) :
        (/\ ChainRunsAfter(i, "deleteSession")
         /\ last.id = pending[i].id) =>
            FindSession(data'.sessions, pending[i].id) = Null

\* C33: (file-backed backend) startSession(id) for an id with no session
\* record, followed without a yield by an awaited deleteSession(id): once
\* the pending work has finished there is no session record for id.
C33_StartThenDelete == [][C33_Step]_vars

\* a waiting saveAssistantMessage completes with a stored message
AssistantPersists(i) ==
    /\ writes[i].stage = "delay"
    /\ writes' = Splice(writes, i)
    /\ nextUuid' = nextUuid + 1
    /\ last'.op = "saveAssistantMessage" /\ last'.err = NoError

C34_Step == \A i \in 1..Len(writes) :
    AssistantPersists(i) =>
        /\ writes[i].called # NoSession
        /\ last'.arg.sessionId = writes[i].called

C34_State ==
    /\ \A i \in 1..Len(data.messages) : data.messages[i].sessionId # NoSession
    /\ \A i \in 1..Len(data.sessions) : data.sessions[i].id # NoSession

\* C34: every message persisted by saveAssistantMessage carries the non-null
\* session id that was current when saveAssistantMessage was called, also
\* when clear(), deleteSession of the current session, setCurrentSession or
\* startSession runs during its ordering delay; no message with a null
\* sessionId and no session record with a null id is ever stored.
C34_SessionOfCall == []C34_State /\ [][C34_Step]_vars

\* every saveMessage call made so far has resolved
AllSettled == writes # <<>> /\ \A i \in 1..Len(writes) : writes[i].stage = "done"

InMemoryComplete ==
    /\ \A i \in 1..Len(writes) : FindMessage(data.messages, writes[i].id) # Null
    /\ \A i \in 1..Len(writes) :
           LET record == FindSession(data.sessions, writes[i].sessionId)
           IN  /\ record # Null
               /\ record.messageCount = CountFor(data.messages, writes[i].sessionId)

\* C35: for concurrent saveMessage calls on one file-backed instance, with
\* no write failure, the in-memory state after all of them have completed
\* contains every saved message and each affected session's messageCount
\* equals the number of its stored messages.
C35_InMemoryComplete == AllSettled => InMemoryComplete

AlternatingOps == {"saveUserMessage", "saveAssistantMessage"}

C36_Step ==
    (/\ managerReady
     /\ last.op \in AlternatingOps /\ last.err = NoError
     /\ SaveCall /\ last'.op \in AlternatingOps /\ last'.op # last.op
     /\ last'.err = NoError
     /\ last'.arg.sessionId = last.arg.sessionId) =>
        LET history == HistoryOn(data', table', last.arg.sessionId)
        IN  /\ PositionOf(history, last.id) >= 1
            /\ PositionOf(history, last'.id) > PositionOf(history, last.id)
            /\ last'.arg.timestamp > last.arg.timestamp

\* C36: for awaited saves alternating saveUserMessage and
\* saveAssistantMessage in one session, the history returns the messages in
\* save order and every message has a timestamp strictly greater than its
\* predecessor's, for the user-after-assistant pairs as well as the
\* assistant-after-user pairs, under a clock that never goes back and
\* advances by at least one unit during the ordering delay.
C36_StrictOrder == [][C36_Step]_vars

SessionRows(tbl, sessionId) == DynamoGetMessages(tbl, BySession(sessionId)).messages

C37_Step ==
    (kind = "dynamodb" /\ ready
     /\ last'.op = "deleteSession" /\ last'.err = RemoteFailed
     /\ (last' # last \/ table' # table)) =>
        LET before == SessionRows(table, last'.id)
            after == SessionRows(table', last'.id)
            j == last'.deleted
        IN  /\ j \in 0..Len(before)
            /\ after = SubSeq(before, j + 1, Len(before))
            /\ DynamoGetSession(table', last'.id) = DynamoGetSession(table, last'.id)
            /\ table' \subseteq table
            /\ Cardinality(table \ table') = j

\* C37: in the wide-column backend deleteSession is not transactional: if a
\* remote delete fails after j of the session's n message rows were
\* deleted, the error propagates and the table is left with the session
\* record and the remaining n - j message rows; the j deletions are not
\* rolled back.
C37_NotTransactional == [][C37_Step]_vars

\* a deleteSession of s1 has failed on the second of two message rows: one
\* row is gone, the other and the session record are still there
C37_Witness ==
    /\ kind = "dynamodb"
    /\ last.op = "deleteSession" /\ last.err = RemoteFailed /\ last.id = "s1"
    /\ last.deleted = 1
    /\ Len(SessionRows(table, "s1")) = 1
    /\ DynamoGetSession(table, "s1") # Null

UniqueIds(arr) == \A i, j \in 1..Len(arr) : arr[i].id = arr[j].id => i = j

C38_State == IsBlob => UniqueIds(data.messages) /\ UniqueIds(data.sessions)

C38_Step ==
    (/\ IsBlob
     /\ last'.op = "saveMessage" /\ last'.err = NoError
     /\ (last' # last \/ data' # data)
     /\ FindMessage(data.messages, last'.id) # Null) =>
        /\ Len(data'.messages) = Len(data.messages)
        /\ \A i \in 1..Len(data.messages) :
               IF data.messages[i].id = last'.id
               THEN /\ data'.messages[i].id = last'.id
                    /\ data'.messages[i].sessionId = last'.arg.sessionId
               ELSE data'.messages[i] = data.messages[i]

\* C38: in the file-backed and object-storage-backed backends, from an empty
\* store, after any sequence of saveMessage, saveMessages, deleteMessage,
\* deleteSession, clear and title-only updateSession calls no two stored
\* messages share an id and no two session records share an id; saveMessage
\* with an id that is already stored replaces that message in place and
\* does not change the number of stored messages.
C38_UniqueIds == []C38_State /\ [][C38_Step]_vars

\* two messages are stored and the one saveMessage has just saved is the
\* first of them: it took the place of the message that had its id
C38_Witness ==
    /\ IsBlob
    /\ last.op = "saveMessage" /\ last.err = NoError
    /\ Len(data.messages) = 2 /\ Len(data.sessions) = 2
    /\ data.messages[1].id = last.id
    /\ data.messages[1].sessionId = last.arg.sessionId

NoOrphans(d) ==
    \A i \in 1..Len(d.messages) : FindSession(d.sessions, d.messages[i].sessionId) # Null

\* C39: in the file-backed and object-storage-backed backends, from an empty
\* store, after any sequence of sequentially awaited saveMessage,
\* saveMessages, deleteMessage, deleteSession, clear and title-only
\* updateSession calls every stored message's sessionId is the id of an
\* existing session record, so totalMessages > 0 implies totalSessions > 0.
C39_NoOrphans ==
    IsBlob =>
        /\ NoOrphans(data)
        /\ GetStatsData(data).totalMessages > 0 => GetStatsData(data).totalSessions > 0

\* a session has been deleted and a message of the other session is still
\* stored, with its session record
C39_Witness ==
    /\ IsBlob
    /\ last.op = "deleteSession" /\ last.err = NoError
    /\ Len(data.messages) = 1 /\ Len(data.sessions) = 1
    /\ data.messages[1].sessionId = data.sessions[1].id
    /\ data.sessions[1].id # last.id

=========================================================================
